---- MODULE Spec2Model ----
(***************************************************************************)
(* Device-control firmware of the peptide synthesizer (sp-reactor):        *)
(* the serial-only sketch integrated_opta_controller.ino and the Ethernet  *)
(* sketch integrated_opta_controller_ethernet.ino.                         *)
(*                                                                         *)
(* Text is modelled at character level: a C string / Arduino String is a   *)
(* sequence of one-character strings.  Control bytes on the RS485 bus are  *)
(* the symbols "STX", "ENQ", "ACK", "NAK", "CR", "LF".  A printf call is    *)
(* kept as its format string plus its argument list.                       *)
(***************************************************************************)
EXTENDS Integers, Sequences, FiniteSets, TLC

(***************************************************************************)
(* Bounds of the model.                                                    *)
(***************************************************************************)
\* longest run of bytes that arrives while a reconfiguration settles
MaxStale == 1
\* a command line may reach the firmware in two pieces, cut after this many
\* characters
SplitAt == 3

(***************************************************************************)
(* Program constants.                                                      *)
(***************************************************************************)
MAX_DEVICES == 16
DEVID_COPY == 15
PARAM_COPY == 31

(***************************************************************************)
(* Characters and C string functions.                                      *)
(***************************************************************************)
UpperChars == <<"A","B","C","D","E","F","G","H","I","J","K","L","M",
                "N","O","P","Q","R","S","T","U","V","W","X","Y","Z">>
LowerChars == <<"a","b","c","d","e","f","g","h","i","j","k","l","m",
                "n","o","p","q","r","s","t","u","v","w","x","y","z">>

UpperSet == { UpperChars[i] : i \in 1..26 }

UpperIndex == [c \in UpperSet |-> CHOOSE i \in 1..26 : UpperChars[i] = c]

\* a comparison that keeps the case of the letters
tolower_keepsCase(c) == c

tolower(c) == IF c \in UpperSet THEN LowerChars[UpperIndex[c]] ELSE c

\* strcasecmp(a, b) == 0
strcasecmp0(a, b) ==
  /\ Len(a) = Len(b)
  /\ \A i \in 1..Len(a) : tolower(a[i]) = tolower(b[i])

\* the vertical tab, a character that a string of the notation cannot hold
VT == "VT"

\* isspace() of the C locale: space, \t, \n, \v, \f, \r
isspace(c) == c \in {" ", "\t", "\n", VT, "\f", "\r"}

RECURSIVE TrimLeft(_)
TrimLeft(s) ==
  IF s # <<>> /\ isspace(Head(s)) THEN TrimLeft(Tail(s)) ELSE s

RECURSIVE TrimRight(_)
TrimRight(s) ==
  IF s # <<>> /\ isspace(s[Len(s)]) THEN TrimRight(SubSeq(s, 1, Len(s) - 1)) ELSE s

\* String::trim()
trim(s) == TrimRight(TrimLeft(s))

\* String::equalsIgnoreCase()
equalsIgnoreCase(s, t) == strcasecmp0(s, t)

\* strtok(copy, ":") called until it returns NULL: the maximal non-empty
\* runs of characters other than the delimiter, in order
RECURSIVE strtokAll(_, _)
strtokAll(s, cur) ==
  IF s = <<>> THEN (IF cur = <<>> THEN <<>> ELSE <<cur>>)
  ELSE IF Head(s) = ":"
       THEN (IF cur = <<>> THEN <<>> ELSE <<cur>>) \o strtokAll(Tail(s), <<>>)
       ELSE strtokAll(Tail(s), Append(cur, Head(s)))

\* strncpy(dst, token, n) into an array of n + 1 cells of which only the
\* first was cleared: the string a reader then finds in dst.  A token shorter
\* than n is copied with its terminator.  Of a longer one n characters are
\* copied and no terminator; the reader runs on from the cell behind them,
\* which nothing has written, to the first zero byte: over the bytes after
\* (none when that cell holds zero)
strncpy(tok, n, after) == IF Len(tok) < n THEN tok ELSE SubSeq(tok, 1, n) \o after

\* true when s contains t as a substring: strstr(s, t) != NULL
strstr(s, t) ==
  \E i \in 1..(Len(s) - Len(t) + 1) : SubSeq(s, i, i + Len(t) - 1) = t

\* strncmp(s, t, Len(t)) == 0
strncmp0(s, t) == Len(s) >= Len(t) /\ SubSeq(s, 1, Len(t)) = t

(***************************************************************************)
(* Words of the command language.                                          *)
(***************************************************************************)
wON       == <<"O","N">>
wOFF      == <<"O","F","F">>
wTOGGLE   == <<"T","O","G","G","L","E">>
wGOTO     == <<"G","O","T","O">>
wHOME     == <<"H","O","M","E">>
wPOSITION == <<"P","O","S","I","T","I","O","N">>
wSTATUS   == <<"S","T","A","T","U","S">>
wCW       == <<"C","W">>
wCCW      == <<"C","C","W">>
wINIT     == <<"I","N","I","T">>
wSPEED    == <<"S","P","E","E","D">>
wSTART    == <<"S","T","A","R","T">>
wGO       == <<"G","O">>
wSTOP     == <<"S","T","O","P">>
wHALT     == <<"H","A","L","T">>
wREV      == <<"R","E","V">>
wREMOTE   == <<"R","E","M","O","T","E">>
wLOCAL    == <<"L","O","C","A","L">>
wHELP     == <<"H","E","L","P">>

\* identifiers given to the devices in setup()
idREL(i)  == <<"R","E","L","_","0">> \o <<<<"1","2","3","4">>[i]>>
idVICI    == <<"V","I","C","I","_","0","1">>
idMFLEX   == <<"M","F","L","E","X","_","0","1">>

(***************************************************************************)
(* The shared RS485 bus.                                                   *)
(*                                                                         *)
(* While one command executes, the bus is the record                       *)
(*   profile   : the parameters of the last RS485.begin()                  *)
(*   receiving : receiver enabled (RS485.receive / RS485.noReceive)        *)
(*   rxq       : bytes waiting in the receive queue                        *)
(*   io        : what the wire does during this command:                   *)
(*                 io.stale    bytes that arrive while a reconfiguration   *)
(*                             waits for the bus to stabilize              *)
(*                 io.reply[n] bytes that arrive, before the read timeout, *)
(*                             after the n-th transmission                 *)
(*   sent      : number of transmissions so far                            *)
(*   log       : the bus operations performed, in order                    *)
(* The symbol "GAP" in a reply is a silence longer than the valve reader's *)
(* inter-byte timeout; it is not a byte.                                   *)
(***************************************************************************)
P_NONE == "unconfigured"
P_VICI == "9600_8N1"
P_MFLEX == "4800_7O1"

RESP_NONE == "RESP_NONE"
RESP_LINE == "RESP_LINE"
RESP_ACK  == "RESP_ACK"
RESP_NAK  == "RESP_NAK"

Ev(op, profile, data, res) == [op |-> op, profile |-> profile, data |-> data, res |-> res]

NewBus(profile, receiving, io) ==
  [profile |-> profile, receiving |-> receiving, rxq |-> <<>>, io |-> io,
   sent |-> 0, log |-> <<>>]

\* RS485.end(); RS485.begin(...); RS485.receive(); delay(...)
Reconfigure(b, profile) ==
  [b EXCEPT !.profile = profile, !.receiving = TRUE, !.rxq = b.io.stale,
            !.log = @ \o << Ev("end", b.profile, <<>>, ""),
                            Ev("begin", profile, <<>>, ""),
                            Ev("receive", profile, <<>>, ""),
                            Ev("delay", profile, <<>>, "") >>]

setupViciRS485(b) == Reconfigure(b, P_VICI)

setupMasterflexRS485(b) == Reconfigure(b, P_MFLEX)

\* while (RS485.available()) (void)RS485.read();
drainRx(b) == [b EXCEPT !.rxq = <<>>, !.log = Append(@, Ev("drain", b.profile, <<>>, ""))]

drainRS485(b) == drainRx(b)

\* noReceive, beginTransmission, write, flush, guard delay, endTransmission,
\* receive; the device's answer then arrives in the receive queue
Transmit(b, bytes) ==
  LET n == b.sent + 1
      answer == IF n <= Len(b.io.reply) THEN b.io.reply[n] ELSE <<>>
  IN [b EXCEPT !.receiving = TRUE, !.sent = n, !.rxq = @ \o answer,
               !.log = @ \o << Ev("noReceive", b.profile, <<>>, ""),
                               Ev("write", b.profile, bytes, ""),
                               Ev("flush", b.profile, <<>>, ""),
                               Ev("guard", b.profile, <<>>, ""),
                               Ev("receive", b.profile, <<>>, "") >>]

(***************************************************************************)
(* Response readers.  Each consumes the receive queue from its head and    *)
(* yields the classification, the C string left in the caller's buffer     *)
(* and the bytes it did not consume.  The end of the queue is the total    *)
(* timeout.                                                                *)
(***************************************************************************)
\* a readLine that keeps the newline bytes
RECURSIVE readLine_keepsNewlines(_, _, _)
readLine_keepsNewlines(q, out, max) ==
  IF q = <<>> THEN [ok |-> Len(out) > 0, buf |-> out, rest |-> <<>>]
  ELSE IF Head(q) = "GAP"
       THEN (IF Len(out) > 0 THEN [ok |-> TRUE, buf |-> out, rest |-> Tail(q)]
             ELSE readLine_keepsNewlines(Tail(q), out, max))
       ELSE IF Head(q) = "CR" THEN [ok |-> Len(out) > 0, buf |-> out, rest |-> Tail(q)]
       ELSE IF Len(out) + 1 < max THEN readLine_keepsNewlines(Tail(q), Append(out, Head(q)), max)
       ELSE readLine_keepsNewlines(Tail(q), out, max)

\* ViciDevice::readLine
RECURSIVE readLine(_, _, _)
readLine(q, out, max) ==
  IF q = <<>> THEN [ok |-> Len(out) > 0, buf |-> out, rest |-> <<>>]
  ELSE IF Head(q) = "GAP"
       THEN (IF Len(out) > 0 THEN [ok |-> TRUE, buf |-> out, rest |-> Tail(q)]
             ELSE readLine(Tail(q), out, max))
       ELSE IF Head(q) = "CR" THEN [ok |-> Len(out) > 0, buf |-> out, rest |-> Tail(q)]
       ELSE IF Head(q) = "LF" THEN readLine(Tail(q), out, max)
       ELSE IF Len(out) + 1 < max THEN readLine(Tail(q), Append(out, Head(q)), max)
       ELSE readLine(Tail(q), out, max)

\* MasterflexDevice::readMasterflexResponse of the serial-only sketch.  buf
\* is what the call has stored in the array from its start (buffer[0] is
\* cleared on entry), nul whether a terminator stands behind it: the array
\* is one of the caller's locals, and ACK and NAK return without a store
RECURSIVE readMasterflexResponse_serial(_, _, _)
readMasterflexResponse_serial(q, buffer, maxLen) ==
  IF q = <<>>
  THEN [type |-> IF Len(buffer) > 0 THEN RESP_LINE ELSE RESP_NONE, buf |-> buffer,
        nul |-> TRUE, rest |-> <<>>]
  ELSE IF Head(q) = "GAP" THEN readMasterflexResponse_serial(Tail(q), buffer, maxLen)
  ELSE IF Head(q) = "ACK"
       THEN [type |-> RESP_ACK, buf |-> buffer, nul |-> buffer = <<>>, rest |-> Tail(q)]
  ELSE IF Head(q) = "NAK"
       THEN [type |-> RESP_NAK, buf |-> buffer, nul |-> buffer = <<>>, rest |-> Tail(q)]
  ELSE IF Head(q) = "CR"
       THEN [type |-> IF Len(buffer) > 0 THEN RESP_LINE ELSE RESP_NONE,
             buf |-> buffer, nul |-> TRUE, rest |-> Tail(q)]
  ELSE IF Len(buffer) + 1 < maxLen
       THEN readMasterflexResponse_serial(Tail(q), Append(buffer, Head(q)), maxLen)
       ELSE readMasterflexResponse_serial(Tail(q), buffer, maxLen)

\* MasterflexDevice::readMasterflexResponse of the Ethernet sketch: ACK and
\* NAK clear buffer[0], the deadline returns without a store
RECURSIVE readMasterflexResponse_eth(_, _, _)
readMasterflexResponse_eth(q, buffer, maxLen) ==
  IF q = <<>> THEN [type |-> RESP_NONE, buf |-> buffer, nul |-> buffer = <<>>, rest |-> <<>>]
  ELSE IF Head(q) = "GAP" THEN readMasterflexResponse_eth(Tail(q), buffer, maxLen)
  ELSE IF Head(q) = "ACK" THEN [type |-> RESP_ACK, buf |-> <<>>, nul |-> TRUE, rest |-> Tail(q)]
  ELSE IF Head(q) = "NAK" THEN [type |-> RESP_NAK, buf |-> <<>>, nul |-> TRUE, rest |-> Tail(q)]
  ELSE IF Head(q) = "CR"
       THEN [type |-> IF Len(buffer) > 0 THEN RESP_LINE ELSE RESP_NONE,
             buf |-> buffer, nul |-> TRUE, rest |-> Tail(q)]
  ELSE IF Head(q) = "LF" THEN readMasterflexResponse_eth(Tail(q), buffer, maxLen)
  ELSE IF Len(buffer) + 1 < maxLen
       THEN readMasterflexResponse_eth(Tail(q), Append(buffer, Head(q)), maxLen)
       ELSE readMasterflexResponse_eth(Tail(q), buffer, maxLen)

readMasterflexResponse(v, q, maxLen) ==
  IF v = "serial" THEN readMasterflexResponse_serial(q, <<>>, maxLen)
  ELSE readMasterflexResponse_eth(q, <<>>, maxLen)

\* a read that reports a line even when nothing was received
ReadVici_alwaysLine(b, max) ==
  LET got(r) == [bus |-> [b EXCEPT !.rxq = r.rest,
                                   !.log = Append(@, Ev("read", b.profile, r.buf, "true"))],
                 ok |-> TRUE, buf |-> r.buf]
  IN got(readLine(b.rxq, <<>>, max))

\* a read on the bus: the reader runs on the receive queue
ReadVici(b, max) ==
  LET got(r) == [bus |-> [b EXCEPT !.rxq = r.rest,
                                   !.log = Append(@, Ev("read", b.profile, r.buf,
                                                        IF r.ok THEN "true" ELSE "false"))],
                 ok |-> r.ok, buf |-> r.buf]
  IN got(readLine(b.rxq, <<>>, max))

\* the read event carries what the array holds and whether it is terminated
ReadMasterflex(v, b, maxLen) ==
  LET got(r) == [bus |-> [b EXCEPT !.rxq = r.rest,
                                   !.log = Append(@, [op |-> "read", profile |-> b.profile,
                                                      data |-> r.buf, res |-> r.type,
                                                      nul |-> r.nul])],
                 type |-> r.type, buf |-> r.buf, nul |-> r.nul]
  IN got(readMasterflexResponse(v, b.rxq, maxLen))

(***************************************************************************)
(* Number conversion: atof() assigned to a float, and the printf           *)
(* conversions of the pump commands.  A float is the record                *)
(*   cls : "num", "inf" or "nan";  neg : the sign bit                      *)
(*   m, e : the magnitude m * 2^e of a number, m odd and below 2^24, or 0  *)
(* atof() is strtod(): the text is rounded to the nearest double, ties to  *)
(* even, and the assignment rounds the double to the nearest float.  Big   *)
(* numbers are kept as sequences of base-10000 limbs (four decimal digits  *)
(* each) or of bits, most significant first.                               *)
(***************************************************************************)
DigitChars == <<"0","1","2","3","4","5","6","7","8","9">>

isdigit(c) == \E d \in 1..10 : DigitChars[d] = c

DigitVal(c) == (CHOOSE d \in 1..10 : DigitChars[d] = c) - 1

HexChars == <<"0","1","2","3","4","5","6","7","8","9","a","b","c","d","e","f">>

isxdigit(c) == \E d \in 1..16 : HexChars[d] = tolower(c)

HexVal(c) == (CHOOSE d \in 1..16 : HexChars[d] = tolower(c)) - 1

RECURSIVE Pow2(_)
Pow2(n) == IF n = 0 THEN 1 ELSE 2 * Pow2(n - 1)

\* the number of bits of m
BitLength(m) == CHOOSE n \in 0..31 : (n = 0 \/ Pow2(n - 1) <= m) /\ (n = 31 \/ m < Pow2(n))

Zeros(n) == [i \in 1..n |-> 0]

\* F(x), with x computed once
With(F(_), x) == CHOOSE r \in { F(y) : y \in {x} } : TRUE

IsZero(ds) == \A i \in 1..Len(ds) : ds[i] = 0

\* the digits or bits without the leading zeros
StripZeros(ds) ==
  IF IsZero(ds) THEN <<>>
  ELSE SubSeq(ds, CHOOSE i \in 1..Len(ds) : ds[i] # 0 /\ \A j \in 1..(i - 1) : ds[j] = 0, Len(ds))

\* the decimal digits ds four at a time, Len(ds) a multiple of 4: limbs
Limbs(ds) ==
  [i \in 1..(Len(ds) \div 4) |->
     1000 * ds[4 * i - 3] + 100 * ds[4 * i - 2] + 10 * ds[4 * i - 1] + ds[4 * i]]

\* zeros in front of the digits of an integer, behind those of a fraction
PadLeft(ds) == Zeros((4 - (Len(ds) % 4)) % 4) \o ds

PadRight(ds) == ds \o Zeros((4 - (Len(ds) % 4)) % 4)

\* the decimal digits of the limbs
LimbDigits(ls) ==
  [i \in 1..(4 * Len(ls)) |-> (ls[((i - 1) \div 4) + 1] \div <<1000, 100, 10, 1>>[((i - 1) % 4) + 1]) % 10]

\* the limbs ls times f, f at most 2^16: the limbs of the product and what
\* is carried out of them
RECURSIVE Times(_, _)
Times(ls, f) ==
  IF ls = <<>> THEN [limbs |-> <<>>, carry |-> 0]
  ELSE LET put(t, rest) == [limbs |-> <<t % 10000>> \o rest.limbs, carry |-> t \div 10000]
           sum(rest) == put(Head(ls) * f + rest.carry, rest)
       IN sum(Times(Tail(ls), f))

\* the limbs ls, with r carried in, divided by 2^16: quotient and remainder
RECURSIVE Over(_, _)
Over(ls, r) ==
  IF ls = <<>> THEN [limbs |-> <<>>, rem |-> r]
  ELSE LET put(q, rest) == [limbs |-> <<q>> \o rest.limbs, rem |-> rest.rem]
       IN put((r * 10000 + Head(ls)) \div 65536,
              Over(Tail(ls), (r * 10000 + Head(ls)) % 65536))

\* the 16 bits of c
ChunkBits(c) == [i \in 1..16 |-> (c \div Pow2(16 - i)) % 2]

\* the bits of the integer ls, 16 at a time from its low end
RECURSIVE IntegerBits(_)
IntegerBits(ls) ==
  IF IsZero(ls) THEN <<>>
  ELSE LET join(d) == IntegerBits(d.limbs) \o ChunkBits(d.rem)
       IN join(Over(ls, 0))

\* the bits of the fraction 0.ls behind bits, 16 at a time, until 55 bits
\* from the first one on are there, n times at most; sticky tells of what
\* is left of the fraction
RECURSIVE FractionBits(_, _, _)
FractionBits(ls, bits, n) ==
  IF n = 0 \/ IsZero(ls) \/ Len(StripZeros(bits)) >= 55
  THEN [bits |-> bits, sticky |-> ~IsZero(ls)]
  ELSE LET next(t) == FractionBits(t.limbs, bits \o ChunkBits(t.carry), n - 1)
       IN next(Times(ls, 65536))

\* bits incremented by one; carry when they were all ones
Increment(bits) ==
  IF \A i \in 1..Len(bits) : bits[i] = 1
  THEN [bits |-> [i \in 1..Len(bits) |-> IF i = 1 THEN 1 ELSE 0], carry |-> 1]
  ELSE [bits |-> [i \in 1..Len(bits) |->
                    IF \E j \in (i + 1)..Len(bits) : bits[j] = 0 THEN bits[i]
                    ELSE 1 - bits[i]],
        carry |-> 0]

\* the bits rounded to p of them (p >= 1), to nearest and ties to even;
\* sticky tells of ones behind the bits
RoundBits(bits, sticky, p) ==
  IF Len(bits) <= p THEN [bits |-> bits \o Zeros(p - Len(bits)), carry |-> 0]
  ELSE IF bits[p + 1] = 1 /\ (sticky \/ bits[p] = 1 \/ \E i \in (p + 2)..Len(bits) : bits[i] = 1)
       THEN Increment(SubSeq(bits, 1, p))
       ELSE [bits |-> SubSeq(bits, 1, p), carry |-> 0]

RECURSIVE BitsToInt(_, _)
BitsToInt(bits, acc) ==
  IF bits = <<>> THEN acc ELSE BitsToInt(Tail(bits), 2 * acc + Head(bits))

RECURSIVE Normal(_, _, _)
Normal(neg, m, e) ==
  IF m = 0 THEN [cls |-> "num", neg |-> neg, m |-> 0, e |-> 0]
  ELSE IF m % 2 = 0 THEN Normal(neg, m \div 2, e + 1)
  ELSE [cls |-> "num", neg |-> neg, m |-> m, e |-> e]

Infinity(neg) == [cls |-> "inf", neg |-> neg, m |-> 0, e |-> 0]

NotANumber(neg) == [cls |-> "nan", neg |-> neg, m |-> 0, e |-> 0]

\* the float nearest to the double whose 53 bits begin with a one of weight
\* 2^exp: 24 bits, fewer below 2^-126, none below 2^-149
ToFloat(neg, bits, exp) ==
  LET rounded(r, p) ==
        IF exp + r.carry >= 128 THEN Infinity(neg)
        ELSE Normal(neg, BitsToInt(r.bits, 0), exp + r.carry - (p - 1))
  IN IF exp >= -126 THEN rounded(RoundBits(bits, FALSE, 24), 24)
     ELSE IF exp >= -149 THEN rounded(RoundBits(bits, FALSE, 150 + exp), 150 + exp)
     ELSE IF exp = -150 /\ \E i \in 2..Len(bits) : bits[i] = 1 THEN Normal(neg, 1, -149)
     ELSE Normal(neg, 0, 0)

\* the double nearest to the number whose bits begin with a one of weight
\* 2^exp, and from it the float
ToDouble(neg, bits, sticky, exp) ==
  LET rounded(r) == ToFloat(neg, r.bits, exp + r.carry)
  IN IF bits = <<>> THEN Normal(neg, 0, 0)
     ELSE IF exp >= 128 THEN Infinity(neg)
     ELSE rounded(RoundBits(bits, sticky, 53))

\* the number 0.ds * 10^point, ds beginning with a digit other than 0.  A
\* float is below 2^128 < 10^39 and a magnitude below 2^-150 rounds to zero:
\* 55 bits within the first 240 of the fraction decide both roundings, and
\* what follows them is kept as the sticky bit
FromDecimal(neg, ds, point) ==
  LET whole == IF point <= 0 THEN <<>>
               ELSE [i \in 1..point |-> IF i <= Len(ds) THEN ds[i] ELSE 0]
      part == IF point >= Len(ds) THEN <<>>
              ELSE IF point >= 0 THEN SubSeq(ds, point + 1, Len(ds))
              ELSE Zeros(-point) \o ds
      expanded(high, r) ==
        ToDouble(neg, StripZeros(r.bits), r.sticky,
                 IF high # <<>> THEN Len(high) - 1
                 ELSE -(Len(r.bits) - Len(StripZeros(r.bits)) + 1))
      fraction(high) == expanded(high, FractionBits(Limbs(PadRight(part)), high, 15))
  IN IF ds = <<>> THEN Normal(neg, 0, 0)
     ELSE IF point > 39 THEN Infinity(neg)
     ELSE IF point < -45 THEN Normal(neg, 0, 0)
     ELSE fraction(StripZeros(IntegerBits(Limbs(PadLeft(whole)))))

\* the hexadecimal digits as bits
HexBits(hs) == [i \in 1..(4 * Len(hs)) |-> (hs[((i - 1) \div 4) + 1] \div Pow2(3 - ((i - 1) % 4))) % 2]

\* the number bits * 2^(exp - Len(bits))
FromBinary(neg, bits, exp) ==
  IF IsZero(bits) THEN Normal(neg, 0, 0)
  ELSE ToDouble(neg, StripZeros(bits), FALSE, exp - (Len(bits) - Len(StripZeros(bits))) - 1)

\* the longest head of s made of digits (of hexadecimal digits)
RECURSIVE DigitRun(_, _)
DigitRun(s, hex) ==
  IF s # <<>> /\ (IF hex THEN isxdigit(Head(s)) ELSE isdigit(Head(s)))
  THEN <<IF hex THEN HexVal(Head(s)) ELSE DigitVal(Head(s))>> \o DigitRun(Tail(s), hex)
  ELSE <<>>

RECURSIVE DecToInt(_, _)
DecToInt(ds, acc) == IF ds = <<>> THEN acc ELSE DecToInt(Tail(ds), 10 * acc + Head(ds))

\* the value of the digits of an exponent; beyond four digits it makes no
\* difference
Small(ds) == IF Len(StripZeros(ds)) > 4 THEN 9999 ELSE DecToInt(StripZeros(ds), 0)

\* the exponent part at the head of s: the letter mark, a sign, digits.
\* Without a digit there is no exponent part
ExponentPart(s, mark) ==
  LET signed == Len(s) >= 2 /\ s[2] \in {"+", "-"}
      digits == DigitRun(SubSeq(s, IF signed THEN 3 ELSE 2, Len(s)), FALSE)
  IN IF s = <<>> \/ tolower(s[1]) # mark \/ digits = <<>> THEN 0
     ELSE IF signed /\ s[2] = "-" THEN -Small(digits) ELSE Small(digits)

\* the fraction digits at the head of s, behind a point
FractionRun(s, hex) == IF s # <<>> /\ s[1] = "." THEN DigitRun(Tail(s), hex) ELSE <<>>

\* what follows the digits, the point and the fraction digits; a point is
\* taken when a digit stands before or behind it
AfterMantissa(s, whole, part) ==
  IF Len(s) > Len(whole) /\ s[Len(whole) + 1] = "." /\ (whole # <<>> \/ part # <<>>)
  THEN SubSeq(s, Len(whole) + Len(part) + 2, Len(s))
  ELSE SubSeq(s, Len(whole) + 1, Len(s))

HasPrefix(s, word) ==
  Len(s) >= Len(word) /\ \A i \in 1..Len(word) : tolower(s[i]) = word[i]

\* strtod() on the text behind the sign
Magnitude(neg, t) ==
  LET decimal(whole, part) ==
        IF whole = <<>> /\ part = <<>> THEN Normal(FALSE, 0, 0)
        ELSE FromDecimal(neg, StripZeros(whole \o part),
                         Len(whole) - (Len(whole \o part) - Len(StripZeros(whole \o part)))
                         + ExponentPart(AfterMantissa(t, whole, part), "e"))
      hexadecimal(h, whole, part) ==
        IF whole = <<>> /\ part = <<>> THEN Normal(neg, 0, 0)
        ELSE FromBinary(neg, HexBits(whole \o part),
                        4 * Len(whole) + ExponentPart(AfterMantissa(h, whole, part), "p"))
  IN IF HasPrefix(t, <<"i","n","f">>) THEN Infinity(neg)
     ELSE IF HasPrefix(t, <<"n","a","n">>) THEN NotANumber(neg)
     ELSE IF HasPrefix(t, <<"0","x">>)
     THEN hexadecimal(SubSeq(t, 3, Len(t)), DigitRun(SubSeq(t, 3, Len(t)), TRUE),
                      FractionRun(SubSeq(t, 3 + Len(DigitRun(SubSeq(t, 3, Len(t)), TRUE)), Len(t)), TRUE))
     ELSE decimal(DigitRun(t, FALSE), FractionRun(SubSeq(t, 1 + Len(DigitRun(t, FALSE)), Len(t)), FALSE))

\* float x = atof(s)
atof(s) ==
  LET signed(t) ==
        Magnitude(t # <<>> /\ Head(t) = "-",
                  IF t # <<>> /\ Head(t) \in {"+", "-"} THEN Tail(t) ELSE t)
  IN signed(TrimLeft(s))

RECURSIVE IntToChars(_)
IntToChars(n) ==
  IF n < 10 THEN <<DigitChars[n + 1]>>
  ELSE IntToChars(n \div 10) \o <<DigitChars[(n % 10) + 1]>>

RECURSIVE ZeroPad(_, _)
ZeroPad(digits, width) ==
  IF Len(digits) >= width THEN digits ELSE ZeroPad(<<"0">> \o digits, width)

RECURSIVE SpacePad(_, _)
SpacePad(text, width) ==
  IF Len(text) >= width THEN text ELSE SpacePad(<<" ">> \o text, width)

\* the limbs ls times 2^e
RECURSIVE Shifted(_, _)
Shifted(ls, e) ==
  IF e = 0 THEN ls
  ELSE IF e < 16 THEN Times(ls, Pow2(e)).limbs
  ELSE Shifted(Times(ls, 65536).limbs, e - 16)

\* the digits of the integer part of the number x
IntegerText(x) ==
  IF x.e < 0 THEN (IF -x.e > 30 THEN <<"0">> ELSE IntToChars(x.m \div Pow2(-x.e)))
  ELSE IF BitLength(x.m) + x.e <= 30 THEN IntToChars(x.m * Pow2(x.e))
  ELSE LET chars(ds) == [i \in 1..Len(ds) |-> DigitChars[ds[i] + 1]]
       IN chars(StripZeros(LimbDigits(Shifted(Zeros(8) \o <<x.m \div 10000, x.m % 10000>>, x.e))))

\* the number x in units of 1 / scale (10 or 100), rounded to nearest and
\* ties to even, for x below 2^24
Scaled(x, scale) ==
  LET units(ip, q, r, half) ==
        ip * scale + q + (IF r > half \/ (r = half /\ q % 2 = 1) THEN 1 ELSE 0)
      split(f, k) ==
        units(x.m \div Pow2(k), (f * scale) \div Pow2(k), (f * scale) % Pow2(k), Pow2(k - 1))
  IN IF -x.e <= 30 THEN split(x.m % Pow2(-x.e), -x.e)
     ELSE IF -x.e = 31 /\ x.m * scale > Pow2(30) THEN 1
     ELSE 0

\* the conversion %.<prec>f of the magnitude of the number x
Fixed(x, prec) ==
  LET point(cs) == SubSeq(cs, 1, Len(cs) - prec) \o <<".">> \o SubSeq(cs, Len(cs) - prec + 1, Len(cs))
  IN IF x.e >= 0 THEN IntegerText(x) \o <<".">> \o [i \in 1..prec |-> "0"]
     ELSE point(ZeroPad(IntToChars(Scaled(x, IF prec = 1 THEN 10 ELSE 100)), prec + 1))

\* printf("%0<width>.<prec>f", x): zeros pad a number, spaces inf and nan
FmtFixed(x, width, prec) ==
  IF x.cls = "num"
  THEN (IF x.neg THEN <<"-">> \o ZeroPad(Fixed(x, prec), width - 1)
        ELSE ZeroPad(Fixed(x, prec), width))
  ELSE SpacePad((IF x.neg THEN <<"-">> ELSE <<>>)
                \o (IF x.cls = "inf" THEN <<"i","n","f">> ELSE <<"n","a","n">>), width)

\* printf("%0<width>.1f", x)
FmtFixed1(x, width) == FmtFixed(x, width, 1)

\* printf("%0<width>.2f", x)
FmtFixed2(x, width) == FmtFixed(x, width, 2)

\* the value of (int)x is defined: x is a number whose integer part an int
\* holds
IntCastDefined(x) ==
  /\ x.cls = "num"
  /\ \/ x.e < 0
     \/ BitLength(x.m) + x.e <= 31
     \/ (x.neg /\ x.m = 1 /\ x.e = 31)

\* the text of (int)x; cast is what the conversion yields where the
\* language leaves it undefined
IntCast(x, cast) ==
  IF ~IntCastDefined(x) THEN cast
  ELSE IF x.e = 31 THEN <<"-","2","1","4","7","4","8","3","6","4","8">>
  ELSE IF x.neg /\ IntegerText(x) # <<"0">> THEN <<"-">> \o IntegerText(x)
  ELSE IntegerText(x)

\* printf("%0<width>d", (int)x)
FmtIntZero(x, width, cast) ==
  LET padded(text) ==
        IF text # <<>> /\ Head(text) = "-" THEN <<"-">> \o ZeroPad(Tail(text), width - 1)
        ELSE ZeroPad(text, width)
  IN padded(IntCast(x, cast))

\* abs(x) >= 1000
AtLeast1000(x) ==
  \/ x.cls = "inf"
  \/ /\ x.cls = "num"
     /\ IF x.e < 0 THEN -x.e <= 30 /\ x.m \div Pow2(-x.e) >= 1000
        ELSE BitLength(x.m) + x.e > 10 \/ x.m * Pow2(x.e) >= 1000

\* what (int)x yields where the language leaves it undefined: the
\* conversion instruction saturates, or gives the indefinite value, or 0
\* for what is not a number
IntCasts == { <<"2","1","4","7","4","8","3","6","4","7">>,
              <<"-","2","1","4","7","4","8","3","6","4","8">>,
              <<"0">> }

NoCast == <<>>

\* snprintf(dst, size, ...): the text is cut to size - 1 characters
snprintf(text, size) == IF Len(text) < size THEN text ELSE SubSeq(text, 1, size - 1)

(***************************************************************************)
(* Devices.  One record shape serves the three classes; a field a class    *)
(* does not have keeps its constructor value.                              *)
(*   id, type, enabled            Device                                   *)
(*   num, state, pinHigh, ledHigh RelayDevice (pin and ledPin levels)      *)
(*   addr                         ViciDevice::viciId, Masterflex pumpId    *)
(*   initialized                  MasterflexDevice                         *)
(* A command handler yields the record                                     *)
(*   res, fmt, args : CommandResult and the snprintf into response         *)
(*   dev, bus       : the device and the bus afterwards                    *)
(*   trace          : what it printed on Serial itself                     *)
(***************************************************************************)
DEVICE_RELAY == "DEVICE_RELAY"
DEVICE_VICI == "DEVICE_VICI"
DEVICE_MASTERFLEX == "DEVICE_MASTERFLEX"

CMD_OK == "CMD_OK"
CMD_ERROR == "CMD_ERROR"
CMD_DATA == "CMD_DATA"

ID_SIZE == 12

\* a Serial.print / Serial.println call
Out(fn, tag, fmt, args) == [fn |-> fn, tag |-> tag, fmt |-> fmt, args |-> args, to |-> "serial"]

\* the String handleCommandString returns; its caller prints it with println
Ret(tag, fmt, args) == [fn |-> "println", tag |-> tag, fmt |-> fmt, args |-> args, to |-> "caller"]

Result(res, fmt, args, dev, bus, trace) ==
  [res |-> res, fmt |-> fmt, args |-> args, dev |-> dev, bus |-> bus, trace |-> trace]

OnOff(state) == IF state THEN wON ELSE wOFF

\* RelayDevice::RelayDevice
RelayDevice(deviceId, relayNum) ==
  [id |-> snprintf(deviceId, ID_SIZE), type |-> DEVICE_RELAY, enabled |-> FALSE,
   num |-> IF relayNum \in 1..4 THEN relayNum ELSE 1,
   state |-> FALSE, pinHigh |-> FALSE, ledHigh |-> FALSE,
   addr |-> <<>>, initialized |-> FALSE]

\* ViciDevice::ViciDevice
ViciDevice(deviceId, valveId) ==
  [id |-> snprintf(deviceId, ID_SIZE), type |-> DEVICE_VICI, enabled |-> FALSE,
   num |-> 0, state |-> FALSE, pinHigh |-> FALSE, ledHigh |-> FALSE,
   addr |-> <<valveId>>, initialized |-> FALSE]

\* MasterflexDevice::MasterflexDevice
MasterflexDevice(deviceId, masterflexId) ==
  [id |-> snprintf(deviceId, ID_SIZE), type |-> DEVICE_MASTERFLEX, enabled |-> FALSE,
   num |-> 0, state |-> FALSE, pinHigh |-> FALSE, ledHigh |-> FALSE,
   addr |-> snprintf(masterflexId, 4), initialized |-> FALSE]

\* RelayDevice::initialize
Relay_initialize(d) ==
  [d EXCEPT !.pinHigh = FALSE, !.ledHigh = FALSE, !.state = FALSE, !.enabled = TRUE]

\* ViciDevice::initialize
Vici_initialize(d) == [d EXCEPT !.enabled = TRUE]

\* MasterflexDevice::initialize: the Ethernet sketch also clears the
\* initialized flag, the serial-only sketch leaves it as it is
Masterflex_initialize(v, d) ==
  IF v = "serial" THEN [d EXCEPT !.enabled = TRUE]
  ELSE [d EXCEPT !.enabled = TRUE, !.initialized = FALSE]

initialize(v, d) ==
  IF d.type = DEVICE_RELAY THEN Relay_initialize(d)
  ELSE IF d.type = DEVICE_VICI THEN Vici_initialize(d)
  ELSE Masterflex_initialize(v, d)

\* a TOGGLE that drives the pins but does not record the new state
Relay_toggle_unrecorded(d) == [d EXCEPT !.pinHigh = ~d.state, !.ledHigh = ~d.state]

\* RelayDevice::processCommand, TOGGLE: state = !state; both pins follow
Relay_toggle(d) == [d EXCEPT !.state = ~d.state, !.pinHigh = ~d.state, !.ledHigh = ~d.state]

\* a relay whose ON drives the output pin and leaves the indicator dark
Relay_processCommand_darkIndicator(d, command, bus) ==
  IF strcasecmp0(command, wON)
  THEN Result(CMD_OK, "Relay %s ON", <<d.id>>,
              [d EXCEPT !.pinHigh = TRUE, !.state = TRUE], bus, <<>>)
  ELSE IF strcasecmp0(command, wOFF)
  THEN Result(CMD_OK, "Relay %s OFF", <<d.id>>,
              [d EXCEPT !.pinHigh = FALSE, !.ledHigh = FALSE, !.state = FALSE], bus, <<>>)
  ELSE IF strcasecmp0(command, wTOGGLE)
  THEN Result(CMD_OK, "Relay %s %s", <<d.id, OnOff(Relay_toggle(d).state)>>,
              Relay_toggle(d), bus, <<>>)
  ELSE Result(CMD_ERROR, "Unknown relay command: %s", <<command>>, d, bus, <<>>)

\* RelayDevice::processCommand
Relay_processCommand(d, command, bus) ==
  IF strcasecmp0(command, wON)
  THEN Result(CMD_OK, "Relay %s ON", <<d.id>>,
              [d EXCEPT !.pinHigh = TRUE, !.ledHigh = TRUE, !.state = TRUE], bus, <<>>)
  ELSE IF strcasecmp0(command, wOFF)
  THEN Result(CMD_OK, "Relay %s OFF", <<d.id>>,
              [d EXCEPT !.pinHigh = FALSE, !.ledHigh = FALSE, !.state = FALSE], bus, <<>>)
  ELSE IF strcasecmp0(command, wTOGGLE)
  THEN Result(CMD_OK, "Relay %s %s", <<d.id, OnOff(Relay_toggle(d).state)>>,
              Relay_toggle(d), bus, <<>>)
  ELSE Result(CMD_ERROR, "Unknown relay command: %s", <<command>>, d, bus, <<>>)

\* RelayDevice::getStatus
Relay_getStatus(d, bus, statusSize) ==
  [status |-> snprintf(d.id \o <<":">> \o OnOff(d.state), statusSize), bus |-> bus]

\* ViciDevice::sendFrame
sendFrame(d, bus, core) ==
  Transmit(bus, snprintf(<<"/">> \o d.addr \o core \o <<"CR">>, 64))

\* a sendCommand that waits for a reply line after every frame
sendCommand_awaitsReply(d, bus, core, respMax) ==
  ReadVici(sendFrame(d, drainRx(setupViciRS485(bus)), core), 128)

\* ViciDevice::sendCommand; respMax = 0 stands for the call without buffer
sendCommand(d, bus, core, respMax) ==
  LET sent(b) == IF respMax = 0 THEN [bus |-> b, ok |-> TRUE, buf |-> <<>>]
                 ELSE ReadVici(b, respMax)
  IN sent(sendFrame(d, drainRx(setupViciRS485(bus)), core))

\* ViciDevice::processCommand; param1 is never a null pointer
Vici_processCommand(d, command, param1, bus) ==
  LET fail(b) == Result(CMD_ERROR, "VICI command failed or unknown: %s", <<command>>, d, b, <<>>)
      moved(r, fmt, args) ==
        IF r.ok THEN Result(CMD_OK, fmt, args, d, r.bus, <<>>) ELSE fail(r.bus)
      motion(core, fmt, args) == moved(sendCommand(d, bus, core, 0), fmt, args)
      answered(r, fmt) ==
        IF r.ok THEN Result(CMD_DATA, fmt, <<d.id, r.buf>>, d, r.bus, <<>>) ELSE fail(r.bus)
      query(core, fmt) == answered(sendCommand(d, bus, core, 128), fmt)
  IN IF strcasecmp0(command, wGOTO)
     THEN motion(snprintf(<<"G","O">> \o param1, 16), "VICI %s moved to %s", <<d.id, param1>>)
     ELSE IF strcasecmp0(command, wTOGGLE) THEN motion(<<"T","O">>, "VICI %s toggled", <<d.id>>)
     ELSE IF strcasecmp0(command, wHOME) THEN motion(<<"H","M">>, "VICI %s homed", <<d.id>>)
     ELSE IF strcasecmp0(command, wPOSITION) THEN query(<<"C","P">>, "VICI %s position: %s")
     ELSE IF strcasecmp0(command, wSTATUS) THEN query(<<"S","T","A","T">>, "VICI %s status: %s")
     ELSE IF strcasecmp0(command, wCW) THEN motion(<<"C","W">>, "VICI %s moved CW", <<d.id>>)
     ELSE IF strcasecmp0(command, wCCW) THEN motion(<<"C","C">>, "VICI %s moved CCW", <<d.id>>)
     ELSE fail(bus)

\* a valve status that reports a position whether or not a reply came
Vici_getStatus_positionAlways(d, bus, statusSize) ==
  LET report(r) ==
        [status |-> snprintf(d.id \o <<":","P","O","S","_">> \o r.buf, statusSize),
         bus |-> r.bus]
  IN report(sendCommand(d, bus, <<"C","P">>, 32))

\* ViciDevice::getStatus
Vici_getStatus(d, bus, statusSize) ==
  LET report(r) ==
        [status |-> IF r.ok THEN snprintf(d.id \o <<":","P","O","S","_">> \o r.buf, statusSize)
                    ELSE snprintf(d.id \o <<":","U","N","K","N","O","W","N">>, statusSize),
         bus |-> r.bus]
  IN report(sendCommand(d, bus, <<"C","P">>, 32))

(***************************************************************************)
(* Masterflex pump.                                                        *)
(***************************************************************************)
\* the value printed for a ResponseType by Serial.print((int)type)
RespTypeInt(t) ==
  IF t = RESP_NONE THEN <<"0">> ELSE IF t = RESP_LINE THEN <<"1">>
  ELSE IF t = RESP_ACK THEN <<"2">> ELSE <<"3">>

\* a sendMasterflexFrame that transmits its frame a second time
sendMasterflexFrame_retransmits(d, bus, command) ==
  Transmit(Transmit(drainRS485(bus), snprintf(<<"STX","P">> \o d.addr \o command \o <<"CR">>, 64)),
           snprintf(<<"STX","P">> \o d.addr \o command \o <<"CR">>, 64))

\* MasterflexDevice::sendMasterflexFrame
sendMasterflexFrame(d, bus, command) ==
  Transmit(drainRS485(bus), snprintf(<<"STX","P">> \o d.addr \o command \o <<"CR">>, 64))

\* an INIT that forgets to record its success
MarkInitialized_forgotten(d) == d

\* initialized = true, after the ACK of the address assignment
MarkInitialized(d) == [d EXCEPT !.initialized = TRUE]

\* MasterflexDevice::initializePump (serial-only sketch)
initializePump(d, bus) ==
  LET t0 == << Out("print", "", "Initializing Masterflex pump ", <<>>),
               Out("print", "", "%s", <<d.id>>),
               Out("println", "", "...", <<>>) >>
      assignFrame == snprintf(<<"STX","P">> \o d.addr \o <<"CR">>, 16)
      assigned(t2, r2) ==
        IF r2.type = RESP_ACK
        THEN [ok |-> TRUE, dev |-> MarkInitialized(d), bus |-> r2.bus,
              trace |-> t2 \o << Out("print", "", "ACK response type: ", <<>>),
                                 Out("println", "", "%d", <<RespTypeInt(r2.type)>>),
                                 Out("print", "", "Pump ", <<>>),
                                 Out("print", "", "%s", <<d.id>>),
                                 Out("println", "", " ID assigned successfully", <<>>) >>]
        ELSE [ok |-> FALSE, dev |-> d, bus |-> r2.bus,
              trace |-> t2 \o << Out("print", "", "ACK response type: ", <<>>),
                                 Out("println", "", "%d", <<RespTypeInt(r2.type)>>),
                                 Out("print", "", "Failed to assign pump ID (no ACK), got type: ", <<>>),
                                 Out("println", "", "%d", <<RespTypeInt(r2.type)>>) >>]
      enquired(r1) ==
        IF r1.type = RESP_LINE
        THEN IF strstr(r1.buf, <<"P","?">>)
             THEN assigned(t0 \o << Out("print", "", "Init response type: ", <<>>),
                                    Out("print", "", "%d", <<RespTypeInt(r1.type)>>),
                                    Out("print", "", ", content: ", <<>>),
                                    Out("println", "", "%s", <<r1.buf>>),
                                    Out("print", "", "Pump requesting ID assignment for ID ", <<>>),
                                    Out("println", "", "%s", <<d.addr>>) >>,
                           ReadMasterflex("serial", Transmit(drainRS485(r1.bus), assignFrame), 96))
             ELSE [ok |-> FALSE, dev |-> d, bus |-> r1.bus,
                   trace |-> t0 \o << Out("print", "", "Init response type: ", <<>>),
                                      Out("print", "", "%d", <<RespTypeInt(r1.type)>>),
                                      Out("print", "", ", content: ", <<>>),
                                      Out("println", "", "%s", <<r1.buf>>),
                                      Out("print", "", "Expected P? response, got: ", <<>>),
                                      Out("println", "", "%s", <<r1.buf>>) >>]
        ELSE [ok |-> FALSE, dev |-> d, bus |-> r1.bus,
              trace |-> t0 \o << Out("print", "", "Init response type: ", <<>>),
                                 Out("print", "", "%d", <<RespTypeInt(r1.type)>>),
                                 Out("println", "", "No response to ENQ", <<>>) >>]
  IN enquired(ReadMasterflex("serial",
                             Transmit(drainRS485(setupMasterflexRS485(bus)), <<"ENQ">>), 96))

\* the direction character of SPEED
SpeedDirection(v, param2) ==
  IF v = "serial"
  THEN (IF param2 # <<>> /\ param2[1] = "-" THEN "-" ELSE "+")
  ELSE (IF param2 # <<>> THEN param2[1] ELSE "+")

\* any answer at all is taken for the expected one
ResponseIs_anyAnswer(type, want) == type # RESP_NONE

\* if (respType == RESP_ACK), if (respType == RESP_LINE)
ResponseIs(type, want) == type = want

\* the command branches that both sketches share, entered with the bus
\* already reconfigured; param1 is never a null pointer
Masterflex_execute(v, d, command, param1, param2, bus) ==
  LET fail(b) == Result(CMD_ERROR, "Masterflex command failed or unknown: %s", <<command>>, d, b, <<>>)
      replied(r, want, res, fmt, args) ==
        IF ResponseIs(r.type, want)
        THEN Result(res, fmt, IF res = CMD_DATA THEN <<d.id, r.buf>> ELSE args, d, r.bus, <<>>)
        ELSE fail(r.bus)
      transact(core, want, res, fmt, args) ==
        replied(ReadMasterflex(v, sendMasterflexFrame(d, bus, core), 128), want, res, fmt, args)
      speed(rpm, dir) ==
        transact(IF AtLeast1000(rpm)
                 THEN snprintf(<<"S", dir>> \o FmtIntZero(rpm, 4, bus.io.cast), 32)
                 ELSE snprintf(<<"S", dir>> \o FmtFixed1(rpm, 6), 32),
                 RESP_ACK, CMD_OK, "Masterflex %s speed set to %c%.1f RPM",
                 <<d.id, <<dir>>, FmtFixed1(rpm, 0)>>)
      rev(revolutions) ==
        transact(snprintf(<<"V">> \o FmtFixed2(revolutions, 8), 32),
                 RESP_ACK, CMD_OK, "Masterflex %s revolutions set to %.2f",
                 <<d.id, FmtFixed2(revolutions, 0)>>)
  IN IF strcasecmp0(command, wSPEED)
     THEN With(LAMBDA rpm : speed(rpm, SpeedDirection(v, param2)), atof(param1))
     ELSE IF strcasecmp0(command, wSTART) \/ strcasecmp0(command, wGO)
     THEN transact(<<"G">>, RESP_ACK, CMD_OK, "Masterflex %s started", <<d.id>>)
     ELSE IF strcasecmp0(command, wSTOP) \/ strcasecmp0(command, wHALT)
     THEN transact(<<"H">>, RESP_ACK, CMD_OK, "Masterflex %s stopped", <<d.id>>)
     ELSE IF strcasecmp0(command, wREV)
     THEN With(rev, atof(param1))
     ELSE IF strcasecmp0(command, wSTATUS)
     THEN transact(<<"I">>, RESP_LINE, CMD_DATA, "Masterflex %s status: %s", <<>>)
     ELSE IF strcasecmp0(command, wREMOTE)
     THEN transact(<<"R">>, RESP_ACK, CMD_OK, "Masterflex %s remote mode enabled", <<d.id>>)
     ELSE IF strcasecmp0(command, wLOCAL)
     THEN transact(<<"L">>, RESP_ACK, CMD_OK, "Masterflex %s local mode enabled", <<d.id>>)
     ELSE fail(bus)

\* MasterflexDevice::processCommand of the serial-only sketch
Masterflex_processCommand_serial(d, command, param1, param2, bus) ==
  IF strcasecmp0(command, wINIT)
  THEN LET done(r) ==
             IF r.ok
             THEN Result(CMD_OK, "Masterflex %s initialized successfully", <<d.id>>,
                         r.dev, r.bus, r.trace)
             ELSE Result(CMD_ERROR,
                         "Failed to initialize Masterflex %s - check serial output for details",
                         <<d.id>>, r.dev, r.bus, r.trace)
       IN done(initializePump(d, bus))
  ELSE IF ~d.initialized
  THEN Result(CMD_ERROR, "Masterflex %s not initialized", <<d.id>>, d, bus, <<>>)
  ELSE Masterflex_execute("serial", d, command, param1, param2, setupMasterflexRS485(bus))

\* MasterflexDevice::processCommand of the Ethernet sketch
Masterflex_processCommand_eth(d, command, param1, param2, bus) ==
  LET idFrame == snprintf(<<"I">> \o d.addr, 8)
      failed(b) == Result(CMD_ERROR, "Masterflex %s init failed", <<d.id>>, d, b, <<>>)
      assigned(r2) ==
        IF r2.type = RESP_ACK
        THEN Result(CMD_OK, "Masterflex %s initialized", <<d.id>>, MarkInitialized(d), r2.bus, <<>>)
        ELSE failed(r2.bus)
      enquired(r1) ==
        IF r1.type = RESP_LINE /\ strncmp0(r1.buf, <<"P","?">>)
        THEN assigned(ReadMasterflex("ethernet", sendMasterflexFrame(d, r1.bus, idFrame), 128))
        ELSE failed(r1.bus)
      configured(b0) ==
        IF strcasecmp0(command, wINIT)
        THEN enquired(ReadMasterflex("ethernet", Transmit(b0, <<"ENQ">>), 128))
        ELSE Masterflex_execute("ethernet", d, command, param1, param2, b0)
  IN configured(setupMasterflexRS485(bus))

\* a status query that relies on the bus profile it finds
Masterflex_getStatus_noSetup(v, d, bus, statusSize) ==
  LET report(r) ==
        [status |-> IF r.type = RESP_LINE
                    THEN snprintf(d.id \o <<":","A","C","T","I","V","E">>, statusSize)
                    ELSE snprintf(d.id \o <<":","U","N","K","N","O","W","N">>, statusSize),
         bus |-> r.bus]
  IN IF ~d.initialized
     THEN [status |-> snprintf(d.id \o <<":","N","O","T","_","I","N","I","T">>, statusSize),
           bus |-> bus]
     ELSE report(ReadMasterflex(v, sendMasterflexFrame(d, bus, <<"I">>),
                                IF v = "serial" THEN 128 ELSE 64))

\* MasterflexDevice::getStatus
Masterflex_getStatus(v, d, bus, statusSize) ==
  LET report(r) ==
        [status |-> IF r.type = RESP_LINE
                    THEN snprintf(d.id \o <<":","A","C","T","I","V","E">>, statusSize)
                    ELSE snprintf(d.id \o <<":","U","N","K","N","O","W","N">>, statusSize),
         bus |-> r.bus]
  IN IF ~d.initialized
     THEN [status |-> snprintf(d.id \o <<":","N","O","T","_","I","N","I","T">>, statusSize),
           bus |-> bus]
     ELSE report(ReadMasterflex(v, sendMasterflexFrame(d, setupMasterflexRS485(bus), <<"I">>),
                                IF v = "serial" THEN 128 ELSE 64))

\* virtual dispatch of Device::processCommand and Device::getStatus
processCommand(v, d, command, param1, param2, bus) ==
  IF d.type = DEVICE_RELAY THEN Relay_processCommand(d, command, bus)
  ELSE IF d.type = DEVICE_VICI THEN Vici_processCommand(d, command, param1, bus)
  ELSE IF v = "serial" THEN Masterflex_processCommand_serial(d, command, param1, param2, bus)
  ELSE Masterflex_processCommand_eth(d, command, param1, param2, bus)

getStatus(v, d, bus, statusSize) ==
  IF d.type = DEVICE_RELAY THEN Relay_getStatus(d, bus, statusSize)
  ELSE IF d.type = DEVICE_VICI THEN Vici_getStatus(d, bus, statusSize)
  ELSE Masterflex_getStatus(v, d, bus, statusSize)

(***************************************************************************)
(* DeviceManager.  The registry is the sequence of the registered devices  *)
(* in registration order; its length is deviceCount.                       *)
(***************************************************************************)
\* a registry that takes a device whatever it holds
addDevice_unbounded(v, devs, device) ==
  [ok |-> TRUE, devices |-> Append(devs, initialize(v, device)), device |-> initialize(v, device)]

\* DeviceManager::addDevice; device is the caller's object as the call leaves it
addDevice(v, devs, device) ==
  IF Len(devs) >= MAX_DEVICES THEN [ok |-> FALSE, devices |-> devs, device |-> device]
  ELSE [ok |-> TRUE, devices |-> Append(devs, initialize(v, device)),
        device |-> initialize(v, device)]

\* DeviceManager::findDevice / DeviceManager::find: the index of the first
\* device whose id matches, 0 for nullptr
findDevice(devs, deviceId) ==
  IF \E i \in 1..Len(devs) : strcasecmp0(devs[i].id, deviceId)
  THEN CHOOSE i \in 1..Len(devs) :
         /\ strcasecmp0(devs[i].id, deviceId)
         /\ \A j \in 1..(i - 1) : ~strcasecmp0(devs[j].id, deviceId)
  ELSE 0

\* a concatenation that puts the new text in front
strncat_prepends(dst, src, n) ==
  IF n < 0 \/ n >= Len(src) THEN src \o dst ELSE SubSeq(src, 1, n) \o dst

\* strncat(dst, src, n); n is a size_t, so a negative difference wraps to a
\* count larger than any string
strncat(dst, src, n) ==
  IF n < 0 \/ n >= Len(src) THEN dst \o src ELSE dst \o SubSeq(src, 1, n)

\* strlcat(dst, src, size)
strlcat(dst, src, size) ==
  IF Len(dst) >= size THEN dst
  ELSE IF Len(dst) + Len(src) < size THEN dst \o src
  ELSE dst \o SubSeq(src, 1, size - 1 - Len(dst))

\* DeviceManager::getAllStatus (serial-only sketch), from device i on
RECURSIVE getAllStatus(_, _, _, _, _)
getAllStatus(devs, i, statusBuffer, bufferSize, bus) ==
  IF i > Len(devs) THEN [status |-> statusBuffer, bus |-> bus]
  ELSE IF ~devs[i].enabled THEN getAllStatus(devs, i + 1, statusBuffer, bufferSize, bus)
  ELSE LET append(sep, g) ==
             getAllStatus(devs, i + 1, strncat(sep, g.status, bufferSize - Len(sep) - 1),
                          bufferSize, g.bus)
       IN append(IF Len(statusBuffer) > 0
                 THEN strncat(statusBuffer, <<",", " ">>, bufferSize - Len(statusBuffer) - 1)
                 ELSE statusBuffer,
                 getStatus("serial", devs[i], bus, 64))

\* DeviceManager::allStatus (Ethernet sketch), from device i on
RECURSIVE allStatus(_, _, _, _, _)
allStatus(devs, i, out, max, bus) ==
  IF i > Len(devs) THEN [status |-> out, bus |-> bus]
  ELSE LET append(sep, g) == allStatus(devs, i + 1, strlcat(sep, g.status, max), max, g.bus)
       IN append(IF i > 1 THEN strlcat(out, <<",", " ">>, max) ELSE out,
                 getStatus("ethernet", devs[i], bus, 96))

(***************************************************************************)
(* Command parsing and dispatch.  Dispatching one line yields the record   *)
(*   out     : the Serial.print / println calls, or the string that        *)
(*             handleCommandString returns to its caller, in order         *)
(*   devices, bus : registry and bus afterwards                            *)
(*   target  : index of the device whose handler ran, 0 for none           *)
(*   res     : its CommandResult, "none" when no handler ran               *)
(***************************************************************************)
TokenAt(toks, k, n, after) == IF Len(toks) >= k THEN strncpy(toks[k], n, after) ELSE <<>>

\* the copy of the input that parseCommand cuts up: the Ethernet sketch ends
\* it at the first CR or LF
RECURSIVE InputCopy(_, _)
InputCopy(v, input) ==
  IF input = <<>> \/ (v = "ethernet" /\ Head(input) \in {"\r", "\n"}) THEN <<>>
  ELSE <<Head(input)>> \o InputCopy(v, Tail(input))

\* parseCommand into the four arrays of its caller; mem[k] is what lies
\* behind the characters copied into the k-th of them
parseCommand(v, input, mem) ==
  LET cut(toks) ==
        [deviceId |-> TokenAt(toks, 1, DEVID_COPY, mem[1]),
         command |-> TokenAt(toks, 2, DEVID_COPY, mem[2]),
         param1 |-> TokenAt(toks, 3, PARAM_COPY, mem[3]),
         param2 |-> TokenAt(toks, 4, PARAM_COPY, mem[4])]
  IN cut(strtokAll(InputCopy(v, input), <<>>))

Dispatched(out, devs, bus, target, res) ==
  [out |-> out, devices |-> devs, bus |-> bus, target |-> target, res |-> res]

\* an error result printed without its prefix
ResultTag_untaggedError(res) ==
  IF res = CMD_OK THEN "OK: " ELSE IF res = CMD_DATA THEN "DATA: " ELSE ""

\* the prefix chosen from the CommandResult
ResultTag(res) ==
  IF res = CMD_OK THEN "OK: " ELSE IF res = CMD_DATA THEN "DATA: " ELSE "ERROR: "

FORMAT_ERROR == "Invalid command format. Use DEVICE_ID:COMMAND[:PARAM1[:PARAM2]]"

\* processSerialCommand (serial-only sketch)
processSerialCommand(devs, bus, commandStr) ==
  LET status(all) ==
        Dispatched(<< Out("print", "DATA: ", "", <<>>), Out("println", "", "%s", <<all.status>>) >>,
                   devs, all.bus, 0, "none")
      handled(i, r) ==
        Dispatched(r.trace \o << Out("print", ResultTag(r.res), "", <<>>),
                                 Out("println", "", r.fmt, r.args) >>,
                   [devs EXCEPT ![i] = r.dev], r.bus, i, r.res)
      routed(p, i) ==
        IF i = 0
        THEN Dispatched(<< Out("print", "ERROR: ", "Device not found: ", <<>>),
                           Out("println", "", "%s", <<p.deviceId>>) >>, devs, bus, 0, "none")
        ELSE handled(i, processCommand("serial", devs[i], p.command, p.param1, p.param2, bus))
      parsed(p) ==
        IF Len(p.deviceId) = 0 \/ Len(p.command) = 0
        THEN Dispatched(<< Out("println", "ERROR: ", FORMAT_ERROR, <<>>) >>, devs, bus, 0, "none")
        ELSE routed(p, findDevice(devs, p.deviceId))
      trimmed(cmd) ==
        IF equalsIgnoreCase(cmd, wSTATUS)
        THEN status(getAllStatus(devs, 1, <<>>, 512, bus))
        ELSE IF equalsIgnoreCase(cmd, wHELP)
        THEN Dispatched(<< Out("println", "OK: ", "Available commands:", <<>>),
                           Out("println", "", "  STATUS - Get all device statuses", <<>>),
                           Out("println", "", "  DEVICE_ID:COMMAND[:PARAM1[:PARAM2]]", <<>>),
                           Out("println", "", "  Examples:", <<>>),
                           Out("println", "", "    REL_01:ON", <<>>),
                           Out("println", "", "    VICI_01:GOTO:A", <<>>),
                           Out("println", "", "    MFLEX_01:SPEED:100.0:+", <<>>) >>,
                        devs, bus, 0, "none")
        ELSE parsed(parseCommand("serial", cmd, bus.io.mem))
  IN trimmed(trim(commandStr))

\* handleCommandString (Ethernet sketch); the caller prints the returned
\* string with one println
handleCommandString(devs, bus, commandStr) ==
  LET status(all) == Dispatched(<< Ret("DATA: ", "%s", <<all.status>>) >>, devs, all.bus, 0, "none")
      handled(i, r) ==
        Dispatched(<< Ret(ResultTag(r.res), r.fmt, r.args) >>,
                   [devs EXCEPT ![i] = r.dev], r.bus, i, r.res)
      routed(p, i) ==
        IF i = 0
        THEN Dispatched(<< Ret("ERROR: ", "Device not found: %s", <<p.deviceId>>) >>,
                        devs, bus, 0, "none")
        ELSE handled(i, processCommand("ethernet", devs[i], p.command, p.param1, p.param2, bus))
      parsed(p) ==
        IF Len(p.deviceId) = 0 \/ Len(p.command) = 0
        THEN Dispatched(<< Ret("ERROR: ", FORMAT_ERROR, <<>>) >>, devs, bus, 0, "none")
        ELSE routed(p, findDevice(devs, p.deviceId))
      trimmed(cmd) ==
        IF equalsIgnoreCase(cmd, wSTATUS)
        THEN status(allStatus(devs, 1, <<>>, 512, bus))
        ELSE IF equalsIgnoreCase(cmd, wHELP)
        THEN Dispatched(<< Ret("OK: ",
          "Commands -> STATUS; DEVICE_ID:COMMAND[:PARAM1[:PARAM2]] e.g. REL_01:ON, VICI_01:GOTO:A, MFLEX_01:SPEED:100.0:+",
                               <<>>) >>, devs, bus, 0, "none")
        ELSE parsed(parseCommand("ethernet", cmd, bus.io.mem))
  IN trimmed(trim(commandStr))

Handle(v, devs, bus, line) ==
  IF v = "serial" THEN processSerialCommand(devs, bus, line)
  ELSE handleCommandString(devs, bus, line)

\* a character loop that dispatches at every terminator, also when the
\* line buffer is empty
RECURSIVE Feed_everyTerminator(_, _, _)
Feed_everyTerminator(buffer, cs, lines) ==
  IF cs = <<>> THEN [lines |-> lines, buffer |-> buffer]
  ELSE IF Head(cs) \in {"\n", "\r"}
       THEN Feed_everyTerminator(<<>>, Tail(cs), Append(lines, buffer))
       ELSE Feed_everyTerminator(Append(buffer, Head(cs)), Tail(cs), lines)

\* the character loop of loop() and handleEthernetClient: feeding the
\* characters cs to the line buffer yields the lines to dispatch, in order,
\* and the buffer left
RECURSIVE Feed(_, _, _)
Feed(buffer, cs, lines) ==
  IF cs = <<>> THEN [lines |-> lines, buffer |-> buffer]
  ELSE IF Head(cs) \in {"\n", "\r"}
       THEN (IF Len(buffer) > 0 THEN Feed(<<>>, Tail(cs), Append(lines, buffer))
             ELSE Feed(buffer, Tail(cs), lines))
       ELSE Feed(Append(buffer, Head(cs)), Tail(cs), lines)

(***************************************************************************)
(* Inputs: command lines, line terminators and what the bus answers.       *)
(***************************************************************************)
lower(s) == [i \in 1..Len(s) |-> tolower(s[i])]

Ln(d, c) == d \o <<":">> \o c

wBLINK == <<"B","L","I","N","K">>
idNOPE == <<"N","O","P","E","_","0","1">>
p100 == <<"1","0","0",".","0">>
p1000 == <<"1","0","0","0">>
p10 == <<"1","0",".","0">>
pQUARTER == <<"0",".","2","5">>
pHUGE == <<"1","e","1","0">>
pTHOUSANDTH == <<"0",".","1","2","9">>

RelayLines ==
  { Ln(idREL(1), c) : c \in {wON, wOFF, wTOGGLE, wBLINK} }
  \cup { Ln(lower(idREL(1)), lower(wON)), Ln(idREL(4), wTOGGLE) }

ViciLines ==
  { Ln(idVICI, c) : c \in {Ln(wGOTO, <<"B">>), wGOTO, wTOGGLE, wHOME, wCW, wCCW,
                           wPOSITION, lower(wPOSITION), wSTATUS, wBLINK} }

PumpLines ==
  { Ln(idMFLEX, c) : c \in {wINIT, lower(wINIT), Ln(wSPEED, p100), Ln(Ln(wSPEED, p1000), <<"-">>),
                            Ln(wSPEED, pQUARTER), Ln(wSPEED, pHUGE), Ln(wREV, pTHOUSANDTH),
                            wSPEED, wSTART, wGO, wSTOP, wHALT, Ln(wREV, p10), wREV,
                            wSTATUS, wREMOTE, wLOCAL, wBLINK} }
  \cup { Ln(lower(idMFLEX), lower(wSTART)) }

\* a device identifier as long as the copy limit of the parser
idLONG == <<"R","E","L","_","0","1","_","O","V","E","R","L","O","N","G">>

UnknownDeviceLines == { Ln(idNOPE, wON), Ln(lower(idNOPE), wSTART), Ln(idLONG, wON) }

MalformedLines ==
  { idREL(1), idREL(1) \o <<":">>, <<":">> \o wON, idREL(1) \o <<":", ":">> \o wON,
    <<":">>, <<" ">>, idMFLEX \o <<":", ":">> \o wSTART }

GlobalLines == { wSTATUS, <<" ">> \o lower(wSTATUS) \o <<" ">>, wHELP, lower(wHELP),
                 <<"\f">> \o wSTATUS \o <<VT>> }

Lines == RelayLines \cup ViciLines \cup PumpLines \cup UnknownDeviceLines
         \cup MalformedLines \cup GlobalLines

\* the lines that are also sent with the other line terminators
TerminatorLines == { Ln(idREL(1), wTOGGLE), wHELP }

\* the lines typed on the debug console of the Ethernet sketch
ConsoleLines == { Ln(idREL(1), wON), wSTATUS, wHELP }

IsPrefix(s, t) == Len(s) <= Len(t) /\ SubSeq(t, 1, Len(s)) = s

\* what may arrive in one pass while the line buffer is empty: a whole
\* line with its terminator, the head of a line, or a bare terminator
FreshChunks ==
  { l \o <<"\r">> : l \in Lines }
  \cup { l \o t : l \in TerminatorLines, t \in { <<"\n">>, <<"\r", "\n">>, <<"\n", "\r", "\n">> } }
  \cup { SubSeq(l, 1, SplitAt) : l \in { x \in Lines : Len(x) > SplitAt } }
  \cup { <<"\r">>, <<"\n">> }

\* and while it holds the head of a line: the rest of that line
Chunks(buffer) ==
  IF buffer = <<>> THEN FreshChunks
  ELSE { SubSeq(l, Len(buffer) + 1, Len(l)) \o <<"\r">> :
           l \in { x \in Lines : IsPrefix(buffer, x) /\ Len(x) > Len(buffer) } }

\* what a client sends in one burst: any chunk while the console buffer is
\* empty; while the console holds the head of a line, a line of the console
ClientChunks(cmd, held) ==
  IF held = <<>> THEN Chunks(cmd)
  ELSE { l \o <<"\r">> : l \in { x \in ConsoleLines : cmd = <<>> } }

RECURSIVE SeqsUpTo(_, _)
SeqsUpTo(S, n) ==
  IF n = 0 THEN { <<>> }
  ELSE LET shorter == SeqsUpTo(S, n - 1)
       IN shorter \cup { Append(q, x) : q \in shorter, x \in S }

Stale == SeqsUpTo({"A"}, MaxStale)

Replies ==
  { <<>>, <<"ACK">>, <<"NAK">>, <<"CR">>,
    <<"P","?","0","CR">>, <<"P","?">>, <<"X","P","?","CR">>,
    <<"B","CR">>, <<"B","GAP","C","CR">>, <<"LF","B","CR">>,
    <<"B","LF","C","CR">>, <<"B","ACK">> }

\* the longest run of bytes other than zero behind an unterminated string
MaxOverrun == 1

\* what a reader may find behind the characters copied into an array of
\* the stack: nothing, or bytes up to the first zero
Overruns == SeqsUpTo({"?"}, MaxOverrun)

\* the copy limits of the four arrays of parseCommand
CopyLimits == <<DEVID_COPY, DEVID_COPY, PARAM_COPY, PARAM_COPY>>

NoMem == [k \in 1..4 |-> <<>>]

\* the memory that makes a difference to the parser: bytes are chosen only
\* behind a token that fills its array
MemFor(toks) ==
  { m \in [1..4 -> Overruns] :
      \A k \in 1..4 : (Len(toks) < k \/ Len(toks[k]) < CopyLimits[k]) => m[k] = <<>> }

\* the conversions to int that make a difference: one is chosen only for a
\* SPEED whose parameter an int does not hold
CastsFor(parsed) ==
  IF strcasecmp0(parsed.command, wSPEED)
     /\ With(LAMBDA rpm : AtLeast1000(rpm) /\ ~IntCastDefined(rpm), atof(parsed.param1))
  THEN IntCasts ELSE {NoCast}

\* what surrounds one dispatch: the bytes the receive buffer takes up while
\* a reconfiguration settles, the replies to the first and the second
\* transmission, what the uninitialised arrays of the dispatcher hold, and
\* what the conversion of a speed beyond the range of int yields
IO(stale, r1, r2) ==
  [stale |-> stale, reply |-> <<r1, r2>>, mem |-> NoMem, cast |-> NoCast]

NoIO == IO(<<>>, <<>>, <<>>)

Reads(log) == Cardinality({ i \in 1..Len(log) : log[i].op = "read" })

\* a read that no drain separates from the reconfiguration before it
UndrainedRead(log) ==
  \E i \in 1..Len(log) :
    /\ log[i].op = "read"
    /\ \E j \in 1..(i - 1) :
         /\ log[j].op = "delay"
         /\ \A k \in (j + 1)..(i - 1) : log[k].op # "drain"

(***************************************************************************)
(* The firmware as a state machine.                                        *)
(***************************************************************************)
VARIABLES
  variant,       \* which sketch runs: "serial" or "ethernet"
  pc,            \* position: "boot", "loop", "dispatch" (a console line is
                 \* complete), "served" (it has been dispatched), "client" (inside
                 \* handleEthernetClient), "clientDispatch", "clientServed" (the
                 \* same for a client line), "afterClient"
  serialUp,      \* the USB serial port is connected: (bool)Serial
  devices,       \* DeviceManager::devices[0 .. deviceCount-1]
  busProfile,    \* parameters of the last RS485.begin()
  busReceiving,  \* RS485 receiver enabled
  serialBuffer,  \* the global String serialBuffer
  clientCmd,     \* String cmd of handleEthernetClient
  commandStr,    \* the completed line handed to the command handler
  last           \* the line just dispatched: where it came from, the bus
                 \* behaviour it met, the state before it and what it did

vars == <<variant, pc, serialUp, devices, busProfile, busReceiving, serialBuffer, clientCmd,
          commandStr, last>>

NoCommand ==
  [transport |-> "none", line |-> <<>>, io |-> NoIO, before |-> <<>>, profileBefore |-> P_NONE,
   out |-> <<>>, target |-> 0, res |-> "none", log |-> <<>>]

Init ==
  /\ variant \in {"serial", "ethernet"}
  /\ pc = "boot"
  /\ serialUp = FALSE
  /\ devices = <<>>
  /\ busProfile = P_NONE
  /\ busReceiving = FALSE
  /\ serialBuffer = <<>>
  /\ clientCmd = <<>>
  /\ commandStr = <<>>
  /\ last = NoCommand

\* the host opens the USB serial port
UsbConnect ==
  /\ ~serialUp
  /\ pc \in {"boot", "loop"}
  /\ serialUp' = TRUE
  /\ UNCHANGED <<variant, pc, devices, busProfile, busReceiving, serialBuffer, clientCmd, commandStr, last>>

RECURSIVE AddAll(_, _, _)
AddAll(v, devs, new) ==
  IF new = <<>> THEN devs ELSE AddAll(v, addDevice(v, devs, Head(new)).devices, Tail(new))

\* a setup() that waits for the USB serial port in both sketches
Setup_waitsForSerial ==
  /\ pc = "boot"
  /\ serialUp
  /\ devices' = AddAll(variant, devices, << RelayDevice(idREL(1), 1), RelayDevice(idREL(2), 2),
                                  RelayDevice(idREL(3), 3), RelayDevice(idREL(4), 4),
                                  ViciDevice(idVICI, "3"),
                                  MasterflexDevice(idMFLEX, <<"0","1">>) >>)
  /\ pc' = "loop"
  /\ UNCHANGED <<variant, serialUp, busProfile, busReceiving, serialBuffer, clientCmd, commandStr, last>>

\* a setup() that gives the second relay the identifier of the first
Setup_registersTwice ==
  /\ pc = "boot"
  /\ variant = "serial" => serialUp
  /\ devices' = AddAll(variant, devices, << RelayDevice(idREL(1), 1), RelayDevice(idREL(1), 2),
                                  RelayDevice(idREL(3), 3), RelayDevice(idREL(4), 4),
                                  ViciDevice(idVICI, "3"),
                                  MasterflexDevice(idMFLEX, <<"0","1">>) >>)
  /\ pc' = "loop"
  /\ UNCHANGED <<variant, serialUp, busProfile, busReceiving, serialBuffer, clientCmd, commandStr, last>>

\* setup(): the serial-only sketch waits for the USB serial port first
Setup ==
  /\ pc = "boot"
  /\ variant = "serial" => serialUp
  /\ devices' = AddAll(variant, devices, << RelayDevice(idREL(1), 1), RelayDevice(idREL(2), 2),
                                  RelayDevice(idREL(3), 3), RelayDevice(idREL(4), 4),
                                  ViciDevice(idVICI, "3"),
                                  MasterflexDevice(idMFLEX, <<"0","1">>) >>)
  /\ pc' = "loop"
  /\ UNCHANGED <<variant, serialUp, busProfile, busReceiving, serialBuffer, clientCmd, commandStr, last>>

\* the effect of a dispatch h of line, received on transport tr, under
\* bus behaviour io
Served(tr, line, io, h) ==
  /\ devices' = h.devices
  /\ busProfile' = h.bus.profile
  /\ busReceiving' = h.bus.receiving
  /\ last' = [transport |-> tr, line |-> line, io |-> io, before |-> devices,
              profileBefore |-> busProfile,
              out |-> [k \in DOMAIN h.out |->
                         IF h.out[k].to = "caller" THEN [h.out[k] EXCEPT !.to = tr]
                         ELSE h.out[k]],
              target |-> h.target, res |-> h.res, log |-> h.bus.log]

\* dispatching line: processSerialCommand / handleCommandString under every
\* bus behaviour that makes a difference; bytes are chosen only where a read
\* can see them.  run[io] is what the handler does under bus behaviour io
Dispatch(tr, line) ==
  LET env(m, c, s, r1, r2) == [IO(s, r1, r2) EXCEPT !.mem = m, !.cast = c]
      twice(run, m, c, s, r1) ==
        \E r2 \in Replies : Served(tr, line, env(m, c, s, r1, r2), run[env(m, c, s, r1, r2)])
      once(run, m, c, s, r1, h1) ==
        IF Reads(h1.bus.log) < 2 THEN Served(tr, line, env(m, c, s, r1, <<>>), h1)
        ELSE twice(run, m, c, s, r1)
      silent(run, m, c, h0) ==
        IF Reads(h0.bus.log) = 0 THEN Served(tr, line, env(m, c, <<>>, <<>>, <<>>), h0)
        ELSE \E s \in (IF UndrainedRead(h0.bus.log) THEN Stale ELSE { <<>> }), r1 \in Replies :
               once(run, m, c, s, r1, run[env(m, c, s, r1, <<>>)])
      staged(run) ==
        \E m \in MemFor(strtokAll(InputCopy(variant, trim(line)), <<>>)) :
          \E c \in CastsFor(parseCommand(variant, trim(line), m)) :
            silent(run, m, c, run[env(m, c, <<>>, <<>>, <<>>)])
  IN staged([io \in [stale : Stale, reply : Replies \X Replies, mem : [1..4 -> Overruns],
                     cast : IntCasts \cup {NoCast}] |->
               Handle(variant, devices, NewBus(busProfile, busReceiving, io), line)])

\* loop() of the serial-only sketch: while (Serial.available()) reads the
\* characters; a completed line goes to processSerialCommand, and the
\* characters that wait behind it are read on in the same pass, after the
\* command has returned, before RS485.receive() ends the pass
SerialLoop ==
  /\ variant = "serial" /\ pc \in {"loop", "served"}
  /\ \E chunk \in Chunks(serialBuffer) :
       LET fed(f) ==
             /\ serialBuffer' = f.buffer
             /\ IF f.lines = <<>>
                THEN /\ pc' = "loop"
                     /\ busReceiving' = TRUE
                     /\ UNCHANGED commandStr
                ELSE /\ pc' = "dispatch"
                     /\ commandStr' = f.lines[1]
                     /\ UNCHANGED busReceiving
       IN fed(Feed(serialBuffer, chunk, <<>>))
  /\ last' = NoCommand
  /\ UNCHANGED <<variant, serialUp, devices, busProfile, clientCmd>>

\* a console that is also read while a client is connected
EthernetLoop_whileConnected ==
  /\ variant = "ethernet" /\ pc \in {"loop", "afterClient", "client"}
  /\ \/ /\ pc' = "loop"
        /\ busReceiving' = TRUE
        /\ UNCHANGED <<serialBuffer, commandStr>>
     \/ /\ serialUp
        /\ \E c \in {"\r", "\n"} \cup { l[Len(serialBuffer) + 1] :
                       l \in { x \in ConsoleLines : IsPrefix(serialBuffer, x)
                                                    /\ Len(x) > Len(serialBuffer) } } :
             LET fed(f) ==
                   /\ serialBuffer' = f.buffer
                   /\ IF f.lines = <<>>
                      THEN /\ pc' = "loop"
                           /\ busReceiving' = TRUE
                           /\ UNCHANGED commandStr
                      ELSE /\ f.lines[1] \in ConsoleLines
                           /\ pc' = "dispatch"
                           /\ commandStr' = f.lines[1]
                           /\ UNCHANGED busReceiving
             IN fed(Feed(serialBuffer, <<c>>, <<>>))
  /\ UNCHANGED <<variant, serialUp, devices, busProfile, clientCmd, last>>

\* loop() of the Ethernet sketch when no client is waiting, and its part
\* after handleEthernetClient has returned: at most one console character
EthernetLoop ==
  /\ variant = "ethernet" /\ pc \in {"loop", "afterClient"}
  /\ \/ /\ pc' = "loop"
        /\ busReceiving' = TRUE
        /\ UNCHANGED <<serialBuffer, commandStr>>
     \/ /\ serialUp
        /\ \E c \in {"\r", "\n"} \cup { l[Len(serialBuffer) + 1] :
                       l \in { x \in ConsoleLines : IsPrefix(serialBuffer, x)
                                                    /\ Len(x) > Len(serialBuffer) } } :
             LET fed(f) ==
                   /\ serialBuffer' = f.buffer
                   /\ IF f.lines = <<>>
                      THEN /\ pc' = "loop"
                           /\ busReceiving' = TRUE
                           /\ UNCHANGED commandStr
                      ELSE /\ f.lines[1] \in ConsoleLines
                           /\ pc' = "dispatch"
                           /\ commandStr' = f.lines[1]
                           /\ UNCHANGED busReceiving
             IN fed(Feed(serialBuffer, <<c>>, <<>>))
  /\ UNCHANGED <<variant, serialUp, devices, busProfile, clientCmd, last>>

\* the completed line is dispatched: processSerialCommand(serialBuffer),
\* Serial.println(handleCommandString(serialBuffer)) or
\* client.println(handleCommandString(cmd))
ProcessCommand ==
  /\ pc \in {"dispatch", "clientDispatch"}
  /\ pc' = (IF pc = "dispatch" THEN "served" ELSE "clientServed")
  /\ Dispatch(IF pc = "dispatch" THEN "serial" ELSE "tcp", commandStr)
  /\ commandStr' = <<>>
  /\ UNCHANGED <<variant, serialUp, serialBuffer, clientCmd>>

\* a loop() that halts after an error response
LoopEnd_haltsOnError ==
  /\ pc = "served"
  /\ last.res # CMD_ERROR
  /\ pc' = "loop"
  /\ busReceiving' = TRUE
  /\ last' = NoCommand
  /\ UNCHANGED <<variant, serialUp, devices, busProfile, serialBuffer, clientCmd, commandStr>>

\* the rest of the loop pass after a console line was dispatched:
\* RS485.receive()
LoopEnd ==
  /\ pc = "served"
  /\ pc' = "loop"
  /\ busReceiving' = TRUE
  /\ last' = NoCommand
  /\ UNCHANGED <<variant, serialUp, devices, busProfile, serialBuffer, clientCmd, commandStr>>

\* a loop() that turns to a waiting client while a console line is held
ClientAccept_duringCommand ==
  /\ variant = "ethernet" /\ pc \in {"loop", "dispatch"}
  /\ pc' = "client"
  /\ clientCmd' = <<>>
  /\ UNCHANGED <<variant, serialUp, devices, busProfile, busReceiving, serialBuffer, commandStr, last>>

\* loop() of the Ethernet sketch: server.available() returns a client,
\* whatever the console has typed so far
ClientAccept ==
  /\ variant = "ethernet" /\ pc = "loop"
  /\ pc' = "client"
  /\ clientCmd' = <<>>
  /\ UNCHANGED <<variant, serialUp, devices, busProfile, busReceiving, serialBuffer, commandStr, last>>

\* handleEthernetClient: the available characters are read; a completed
\* line goes to handleCommandString
ClientData ==
  /\ pc = "client"
  /\ \E chunk \in ClientChunks(clientCmd, serialBuffer) :
       LET fed(f) ==
             /\ clientCmd' = f.buffer
             /\ IF f.lines = <<>>
                THEN UNCHANGED <<pc, commandStr>>
                ELSE /\ pc' = "clientDispatch"
                     /\ commandStr' = f.lines[1]
       IN fed(Feed(clientCmd, chunk, <<>>))
  /\ UNCHANGED <<variant, serialUp, devices, busProfile, busReceiving, serialBuffer, last>>

\* handleEthernetClient goes on reading from the client
ClientResume ==
  /\ pc = "clientServed"
  /\ pc' = "client"
  /\ last' = NoCommand
  /\ UNCHANGED <<variant, serialUp, devices, busProfile, busReceiving, serialBuffer, clientCmd,
                 commandStr>>

\* handleEthernetClient: the peer has disconnected; client.stop()
ClientClose ==
  /\ pc = "client"
  /\ pc' = "afterClient"
  /\ clientCmd' = <<>>
  /\ UNCHANGED <<variant, serialUp, devices, busProfile, busReceiving, serialBuffer, commandStr, last>>

Next ==
  \/ UsbConnect
  \/ Setup
  \/ SerialLoop
  \/ EthernetLoop
  \/ ProcessCommand
  \/ LoopEnd
  \/ ClientAccept
  \/ ClientData
  \/ ClientResume
  \/ ClientClose

Spec == Init /\ [][Next]_vars

\* the processor runs.  setup() is executed as soon as it can be.  A
\* dispatched command returns: ProcessCommand is enabled whenever a line
\* waits for dispatch, every wait on the bus being bounded by its timeout,
\* and only a ProcessCommand step ends that wait, so that weak fairness of
\* ProcessCommand is that no line waits for dispatch for ever.  After the
\* response is written the function returns to loop(), or to the reading
\* loop of handleEthernetClient
FairSpec ==
  /\ Spec
  /\ WF_vars(Setup)
  /\ []<>(pc \notin {"dispatch", "clientDispatch"})
  /\ WF_vars(LoopEnd)
  /\ WF_vars(ClientResume)

TypeOK ==
  /\ variant \in {"serial", "ethernet"}
  /\ pc \in {"boot", "loop", "dispatch", "served", "client", "clientDispatch", "clientServed",
            "afterClient"}
  /\ Len(devices) <= MAX_DEVICES

(***************************************************************************)
(* The DeviceManager on its own.  A registry starts empty, as the          *)
(* constructor leaves it, and is built by addDevice alone; findDevice and  *)
(* the aggregate status are then applied to it.  The first FreeChoice      *)
(* registrations and every registration on a full registry take any        *)
(* device of Pool, which holds an identifier twice, in two letter cases;   *)
(* the registrations in between take a device with a fresh identifier.     *)
(* last records the call just made: its arguments and what it returned.    *)
(***************************************************************************)
FreeChoice == 2

MaxBuffer == 12

\* char allStatus[512] of the STATUS command
STATUS_BUFFER == 512

Pool ==
  { RelayDevice(idREL(1), 1), RelayDevice(lower(idREL(1)), 2), ViciDevice(idVICI, "3"),
    MasterflexDevice(idMFLEX, <<"0","1">>) }

\* the device with a fresh identifier that is registered k-th
Roster(k) == RelayDevice(<<"D","E","V","_">> \o IntToChars(k), 1)

Candidates(n) ==
  IF n < FreeChoice \/ n >= MAX_DEVICES THEN Pool \cup { Roster(n + 1) } ELSE { Roster(n + 1) }

LookupIds == { idREL(1), lower(idVICI), idNOPE, Roster(MAX_DEVICES + 1).id }

BufferSizes == { 0, 1, MaxBuffer, STATUS_BUFFER }

StatusReplies == { <<>>, <<"B","CR">> }

\* getAllStatus / allStatus on a buffer of the given size
aggregateStatus(v, devs, size, bus) ==
  IF v = "serial" THEN getAllStatus(devs, 1, <<>>, size, bus)
  ELSE allStatus(devs, 1, <<>>, size, bus)

\* the number of bytes of the destination the call has written, from its
\* start: the serial-only sketch stores the terminator at [0] before it
\* appends, the Ethernet sketch stores nothing when the size is 0
bytesWritten(v, text, size) ==
  IF v = "ethernet" /\ size = 0 THEN 0 ELSE Len(text) + 1

InitRegistry ==
  /\ variant \in {"serial", "ethernet"}
  /\ pc = "registry"
  /\ serialUp = FALSE
  /\ devices = <<>>
  /\ busProfile = P_NONE
  /\ busReceiving = FALSE
  /\ serialBuffer = <<>>
  /\ clientCmd = <<>>
  /\ commandStr = <<>>
  /\ last = [op |-> "DeviceManager", before |-> <<>>]

\* deviceManager.addDevice(d)
RegisterDevice ==
  LET registered(d, r) ==
        /\ devices' = r.devices
        /\ last' = [op |-> "addDevice", before |-> devices, arg |-> d, ok |-> r.ok,
                    device |-> r.device]
  IN /\ pc = "registry"
     /\ \E d \in Candidates(Len(devices)) : registered(d, addDevice(variant, devices, d))
     /\ UNCHANGED <<variant, pc, serialUp, busProfile, busReceiving, serialBuffer, clientCmd,
                    commandStr>>

\* deviceManager.findDevice(id)
LookUp ==
  /\ pc = "registry"
  /\ \E id \in LookupIds :
       last' = [op |-> "findDevice", before |-> devices, arg |-> id,
                found |-> findDevice(devices, id)]
  /\ UNCHANGED <<variant, pc, serialUp, devices, busProfile, busReceiving, serialBuffer,
                 clientCmd, commandStr>>

\* deviceManager.getAllStatus(buffer, size) / allStatus(buffer, size)
AggregateStatus ==
  LET aggregated(size, io, r) ==
        /\ busProfile' = r.bus.profile
        /\ busReceiving' = r.bus.receiving
        /\ last' = [op |-> "getAllStatus", before |-> devices, size |-> size, io |-> io,
                    text |-> r.status, written |-> bytesWritten(variant, r.status, size)]
      called(size, io) ==
        aggregated(size, io, aggregateStatus(variant, devices, size,
                                             NewBus(busProfile, busReceiving, io)))
  IN /\ pc = "registry"
     /\ \E size \in BufferSizes, r1 \in StatusReplies : called(size, IO(<<>>, r1, <<>>))
     /\ UNCHANGED <<variant, pc, serialUp, devices, serialBuffer, clientCmd, commandStr>>

NextRegistry == RegisterDevice \/ LookUp \/ AggregateStatus

SpecRegistry == InitRegistry /\ [][NextRegistry]_vars

(***************************************************************************)
(* The response readers on their own.  A reader is applied to what the bus *)
(* delivers from the moment it is called until its total timeout: any      *)
(* sequence of at most MaxReply bytes and silences, read into a buffer of  *)
(* one of the sizes the firmware passes.  last records the call: what      *)
(* arrived, the buffer size and what the reader returned; it is cleared    *)
(* when the caller goes on.                                                *)
(***************************************************************************)
MaxReply == 4

\* what can arrive: two payload bytes, the terminator, a newline, the two
\* control bytes, and a silence longer than the gap timeout
Arrivals == {"B", "C", "CR", "LF", "ACK", "NAK", "GAP"}

Received == SeqsUpTo(Arrivals, MaxReply)

\* char viciResponse[128], char pos[32]
ValveBuffers == {128, 32}

\* char response[96], char mfResponse[128], char mfResp[64]
PumpBuffers == {96, 128, 64}

NoCall == [op |-> "none", received |-> <<>>, max |-> 0]

InitReaders ==
  /\ variant \in {"serial", "ethernet"}
  /\ pc = "reader"
  /\ serialUp = FALSE
  /\ devices = <<>>
  /\ busProfile = P_NONE
  /\ busReceiving = FALSE
  /\ serialBuffer = <<>>
  /\ clientCmd = <<>>
  /\ commandStr = <<>>
  /\ last = NoCall

\* readLine(out, max)
CallReadLine ==
  /\ pc = "reader"
  /\ pc' = "returned"
  /\ \E q \in Received, max \in ValveBuffers :
       last' = [op |-> "readLine", received |-> q, max |-> max,
                ret |-> readLine(q, <<>>, max)]
  /\ UNCHANGED <<variant, serialUp, devices, busProfile, busReceiving, serialBuffer,
                 clientCmd, commandStr>>

\* readMasterflexResponse(buffer, maxLen)
CallReadMasterflexResponse ==
  /\ pc = "reader"
  /\ pc' = "returned"
  /\ \E q \in Received, maxLen \in PumpBuffers :
       last' = [op |-> "readMasterflexResponse", received |-> q, max |-> maxLen,
                ret |-> readMasterflexResponse(variant, q, maxLen)]
  /\ UNCHANGED <<variant, serialUp, devices, busProfile, busReceiving, serialBuffer,
                 clientCmd, commandStr>>

\* the caller goes on with what the reader returned
Returned ==
  /\ pc = "returned"
  /\ pc' = "reader"
  /\ last' = NoCall
  /\ UNCHANGED <<variant, serialUp, devices, busProfile, busReceiving, serialBuffer,
                 clientCmd, commandStr>>

NextReaders == CallReadLine \/ CallReadMasterflexResponse \/ Returned

SpecReaders == InitReaders /\ [][NextReaders]_vars

(***************************************************************************)
(* The response readers in time.  The two nested loops of a reader are     *)
(* stepped against the millisecond clock: the inner loop takes the bytes   *)
(* that are available, the outer one tests the gap and the total timeout.  *)
(* One byte at most arrives per tick of the clock, and the reader comes    *)
(* round to an empty receive buffer within the tick: a byte takes a        *)
(* millisecond or more on the wire at 9600 and 4800 baud, a loop pass      *)
(* microseconds.  The timeouts are scaled to a few ticks.  last holds the  *)
(* locals of the reader: the clock read as now (t0 is 0), tLast, whether   *)
(* a payload byte was collected, and the receive buffer rx; n counts the   *)
(* bytes read.                                                             *)
(***************************************************************************)
\* totalTO of readLine and timeout of readMasterflexResponse, in ticks
ValveTotal == 3

PumpTotal == 4

\* gapTO of readLine, in ticks
GapTicks == 1

\* the clock stops here
MaxClock == 6

Wire == {"B", "CR", "LF", "ACK", "NAK"}

TotalOf(op) == IF op = "readLine" THEN ValveTotal ELSE PumpTotal

Idle == [op |-> "none", now |-> 0, tLast |-> 0, got |-> FALSE, rx |-> <<>>, polled |-> FALSE,
         n |-> 0, ret |-> "none"]

InitTimed ==
  /\ variant \in {"serial", "ethernet"}
  /\ pc = "idle"
  /\ serialUp = FALSE
  /\ devices = <<>>
  /\ busProfile = P_NONE
  /\ busReceiving = FALSE
  /\ serialBuffer = <<>>
  /\ clientCmd = <<>>
  /\ commandStr = <<>>
  /\ last = Idle

\* uint32_t t0 = millis(), tLast = t0; size_t i = 0;
EnterReader ==
  /\ pc = "idle"
  /\ pc' = "reading"
  /\ \E op \in {"readLine", "readMasterflexResponse"} : last' = [Idle EXCEPT !.op = op]
  /\ UNCHANGED <<variant, serialUp, devices, busProfile, busReceiving, serialBuffer,
                 clientCmd, commandStr>>

\* the clock advances by a millisecond; a byte may arrive
Tick ==
  /\ pc = "reading"
  /\ last.rx = <<>> /\ last.polled
  /\ last.now < MaxClock
  /\ \E rx \in {<<>>} \cup {<<b>> : b \in Wire} :
       last' = [last EXCEPT !.now = @ + 1, !.rx = rx, !.polled = FALSE]
  /\ UNCHANGED <<variant, pc, serialUp, devices, busProfile, busReceiving, serialBuffer,
                 clientCmd, commandStr>>

\* what the body of the inner loop of readLine does with byte b
readLineByte(l, b) ==
  IF b = "CR" THEN [l EXCEPT !.rx = Tail(@), !.tLast = l.now,
                             !.ret = IF l.got THEN "true" ELSE "false"]
  ELSE IF b = "LF" THEN [l EXCEPT !.rx = Tail(@), !.tLast = l.now]
  ELSE [l EXCEPT !.rx = Tail(@), !.tLast = l.now, !.got = TRUE]

\* what the body of the inner loop of readMasterflexResponse does with byte b
readMasterflexByte(v, l, b) ==
  IF b = "ACK" THEN [l EXCEPT !.rx = Tail(@), !.ret = RESP_ACK]
  ELSE IF b = "NAK" THEN [l EXCEPT !.rx = Tail(@), !.ret = RESP_NAK]
  ELSE IF b = "CR" THEN [l EXCEPT !.rx = Tail(@), !.ret = IF l.got THEN RESP_LINE ELSE RESP_NONE]
  ELSE IF b = "LF" /\ v = "ethernet" THEN [l EXCEPT !.rx = Tail(@)]
  ELSE [l EXCEPT !.rx = Tail(@), !.got = TRUE]

\* while (RS485.available()) { int b = RS485.read(); ... }
ReadByte ==
  LET read(l) == /\ last' = l
                 /\ pc' = IF l.ret = "none" THEN "reading" ELSE "returned"
  IN /\ pc = "reading"
     /\ last.rx # <<>>
     /\ read(IF last.op = "readLine"
             THEN readLineByte([last EXCEPT !.n = @ + 1], Head(last.rx))
             ELSE readMasterflexByte(variant, [last EXCEPT !.n = @ + 1], Head(last.rx)))
     /\ UNCHANGED <<variant, serialUp, devices, busProfile, busReceiving, serialBuffer,
                    clientCmd, commandStr>>

\* the deadline of a reader that starts its total timeout again at every byte
Expired_fromLastByte(l) == l.now - l.tLast >= TotalOf(l.op)

\* millis() - t0 < totalTO fails
Expired(l) == l.now >= TotalOf(l.op)

\* the receive buffer is empty: the gap test of readLine, then the test of
\* the outer loop; at the deadline the reader returns
Poll ==
  /\ pc = "reading"
  /\ last.rx = <<>>
  /\ IF last.op = "readLine" /\ last.got /\ last.now - last.tLast > GapTicks
     THEN pc' = "returned" /\ last' = [last EXCEPT !.ret = "true"]
     ELSE IF Expired(last)
     THEN /\ pc' = "returned"
          /\ last' = [last EXCEPT !.ret =
                        IF last.op = "readLine" THEN (IF last.got THEN "true" ELSE "false")
                        ELSE IF variant = "serial" /\ last.got THEN RESP_LINE ELSE RESP_NONE]
     ELSE pc' = pc /\ last' = [last EXCEPT !.polled = TRUE]
  /\ UNCHANGED <<variant, serialUp, devices, busProfile, busReceiving, serialBuffer,
                 clientCmd, commandStr>>

\* the caller goes on with the value returned
LeaveReader ==
  /\ pc = "returned"
  /\ pc' = "idle"
  /\ last' = Idle
  /\ UNCHANGED <<variant, serialUp, devices, busProfile, busReceiving, serialBuffer,
                 clientCmd, commandStr>>

NextTimed == EnterReader \/ Tick \/ ReadByte \/ Poll \/ LeaveReader

\* the processor runs and the clock advances
SpecTimed ==
  /\ InitTimed /\ [][NextTimed]_vars
  /\ WF_vars(Tick) /\ WF_vars(ReadByte) /\ WF_vars(Poll)

(***************************************************************************)
(* The parser on its buffers.  processSerialCommand and                    *)
(* handleCommandString declare the four output arrays on the stack without *)
(* initialising them; parseCommand stores a NUL in the first cell of each  *)
(* and copies the tokens with strncpy.  A buffer is the sequence of its    *)
(* cells, a cell a character or "NUL"; what the stack held before the call *)
(* is any byte, zero or not.                                               *)
(***************************************************************************)
\* how many characters beyond the copy limit a token of the input carries
MaxOver == 1

\* char deviceId[16], command[16], param1[32], param2[32]
ParserArrays == [deviceId |-> DEVID_COPY + 1, command |-> DEVID_COPY + 1,
                param1 |-> PARAM_COPY + 1, param2 |-> PARAM_COPY + 1]

\* the byte that fills an array before the call: zero, or not zero
StackBytes == {"NUL", "?"}

\* a token of n characters, each telling its position
Token(n) == [i \in 1..n |-> <<"0", "1", "2", "3", "4", "5", "6", "7", "8", "9">>[(i % 10) + 1]]

\* the lengths of the tokens: one character, and around the copy limit
TokenLengths(limit) == {1} \cup ((limit - 1)..(limit + MaxOver))

\* input lines of one to four tokens
ParserLines ==
  LET ids == { Token(n) : n \in TokenLengths(DEVID_COPY) }
      params == { Token(n) : n \in TokenLengths(PARAM_COPY) }
  IN ids
     \cup { Ln(d, c) : d \in ids, c \in ids }
     \cup { Ln(Ln(d, c), p) : d \in ids, c \in ids, p \in params }
     \cup { Ln(Ln(Ln(Token(1), Token(1)), p), q) : p \in params, q \in params }

\* strncpy(dst, token, n): n cells are written, the characters of the token
\* and then NUL up to n; no cell after them
strncpyInto(dst, tok, n) ==
  [i \in 1..Len(dst) |-> IF i > n THEN dst[i]
                         ELSE IF i <= Len(tok) THEN tok[i] ELSE "NUL"]

\* parseCommand on one output array: the k-th token into the array dst
parseInto(dst, toks, k, n) ==
  IF Len(toks) >= k THEN strncpyInto([dst EXCEPT ![1] = "NUL"], toks[k], n)
  ELSE [dst EXCEPT ![1] = "NUL"]

NotParsing == [op |-> "none", input |-> <<>>]

InitParser ==
  /\ variant \in {"serial", "ethernet"}
  /\ pc = "parser"
  /\ serialUp = FALSE
  /\ devices = <<>>
  /\ busProfile = P_NONE
  /\ busReceiving = FALSE
  /\ serialBuffer = <<>>
  /\ clientCmd = <<>>
  /\ commandStr = <<>>
  /\ last = NotParsing

\* parseCommand(input, deviceId, command, param1, param2)
CallParseCommand ==
  /\ pc = "parser"
  /\ pc' = "parsed"
  /\ \E input \in ParserLines, stack \in [DOMAIN ParserArrays -> StackBytes] :
       LET array(f) == [i \in 1..ParserArrays[f] |-> stack[f]]
           copied(toks) ==
             last' = [op |-> "parseCommand", input |-> input,
                      deviceId |-> parseInto(array("deviceId"), toks, 1, DEVID_COPY),
                      command |-> parseInto(array("command"), toks, 2, DEVID_COPY),
                      param1 |-> parseInto(array("param1"), toks, 3, PARAM_COPY),
                      param2 |-> parseInto(array("param2"), toks, 4, PARAM_COPY)]
       IN copied(strtokAll(input, <<>>))
  /\ UNCHANGED <<variant, serialUp, devices, busProfile, busReceiving, serialBuffer,
                 clientCmd, commandStr>>

\* the dispatcher goes on with the four arrays
ParseReturn ==
  /\ pc = "parsed"
  /\ pc' = "parser"
  /\ last' = NotParsing
  /\ UNCHANGED <<variant, serialUp, devices, busProfile, busReceiving, serialBuffer,
                 clientCmd, commandStr>>

NextParser == CallParseCommand \/ ParseReturn

SpecParser == InitParser /\ [][NextParser]_vars

(***************************************************************************)
(* Vocabulary of the properties.  The command grammar of the protocol,     *)
(* DEVICE_ID:COMMAND[:PARAM1[:PARAM2]], is read here from the line itself, *)
(* independently of parseCommand: the fields are what lies between the     *)
(* colons, blank fields included.                                          *)
(***************************************************************************)
RECURSIVE Fields(_, _)
Fields(s, cur) ==
  IF s = <<>> THEN <<cur>>
  ELSE IF Head(s) = ":" THEN <<cur>> \o Fields(Tail(s), <<>>)
  ELSE Fields(Tail(s), Append(cur, Head(s)))

\* a line has just been dispatched and last describes it
Dispatching == pc \in {"served", "clientServed"}

LineFields == Fields(trim(last.line), <<>>)

IsGlobalLine == equalsIgnoreCase(trim(last.line), wSTATUS) \/ equalsIgnoreCase(trim(last.line), wHELP)

WellFormed(fs) == Len(fs) >= 2 /\ fs[1] # <<>> /\ fs[2] # <<>>

WellFormedLine == WellFormed(LineFields)

DeviceField == LineFields[1]

CommandField == LineFields[2]

\* index of the registered device the line names, 0 if none
NamedBy(id) ==
  IF \E i \in 1..Len(last.before) : strcasecmp0(last.before[i].id, id)
  THEN CHOOSE i \in 1..Len(last.before) : strcasecmp0(last.before[i].id, id)
  ELSE 0

Named == NamedBy(DeviceField)

\* the dispatched line is a well-formed command for a device of type t
\* whose command word is one of words
CommandFor(t, words) ==
  /\ Dispatching
  /\ LET worded(fs) == WellFormed(fs) /\ \E w \in words : strcasecmp0(fs[2], w)
     IN worded(LineFields)
  /\ Named # 0 /\ last.before[Named].type = t
  /\ ~IsGlobalLine

PumpIndex == CHOOSE i \in 1..Len(devices) : devices[i].type = DEVICE_MASTERFLEX

PumpInitialized == devices[PumpIndex].initialized

PumpInitializedBefore == last.before[PumpIndex].initialized

\* the events of one kind in the bus log of the dispatched line, in order
RECURSIVE Select(_, _)
Select(log, op) ==
  IF log = <<>> THEN <<>>
  ELSE IF Head(log).op = op THEN <<Head(log)>> \o Select(Tail(log), op)
  ELSE Select(Tail(log), op)

Writes == Select(last.log, "write")

ReadsDone == Select(last.log, "read")

\* the output records that carry a response tag
RECURSIVE Tagged(_)
Tagged(out) ==
  IF out = <<>> THEN <<>>
  ELSE IF Head(out).tag # "" THEN <<Head(out)>> \o Tagged(Tail(out)) ELSE Tagged(Tail(out))

ResponseTag == Tagged(last.out)[1].tag

MotionWords == {wSPEED, wSTART, wGO, wSTOP, wHALT, wREV}

(***************************************************************************)
(* C1: while the pump's initialized flag is false, every pump motion or    *)
(* speed command (SPEED, START/GO, STOP/HALT, REV) is answered with an     *)
(* ERROR response, whatever the bus replies, in both sketches.  The flag   *)
(* is the one before the command; no such command changes it.              *)
(***************************************************************************)
C1_MotionRejectedBeforeInit ==
  (CommandFor(DEVICE_MASTERFLEX, MotionWords) /\ ~PumpInitializedBefore)
    => (last.res = CMD_ERROR /\ ResponseTag = "ERROR: ")

(***************************************************************************)
(* C2: pump INIT success path.  If the reply read after the ENQ byte is a  *)
(* data line beginning with "P?" and the reply to the address-assignment   *)
(* frame classifies as ACK, INIT returns OK and initialized becomes true;  *)
(* a pump STATUS command on the initialized pump is processed with a       *)
(* single I query: no ENQ and no assignment frame is transmitted again.    *)
(***************************************************************************)
InitCommand == CommandFor(DEVICE_MASTERFLEX, {wINIT})

EnqReplyIsIdRequest ==
  /\ Len(ReadsDone) >= 1
  /\ ReadsDone[1].res = RESP_LINE
  /\ strncmp0(ReadsDone[1].data, <<"P","?">>)

\* the class the sketch's reader gives to a reply on the wire
Classify(reply) == readMasterflexResponse(variant, reply, 128).type

StatusQueryFrame == <<"STX","P">> \o devices[PumpIndex].addr \o <<"I","CR">>

C2_InitSuccess ==
  /\ (InitCommand /\ EnqReplyIsIdRequest /\ Classify(last.io.reply[2]) = RESP_ACK)
       => (last.res = CMD_OK /\ ResponseTag = "OK: " /\ PumpInitialized)
  /\ (CommandFor(DEVICE_MASTERFLEX, {wSTATUS}) /\ PumpInitializedBefore)
       => (Len(Writes) = 1 /\ Writes[1].data = StatusQueryFrame)

C2_Witness ==
  /\ CommandFor(DEVICE_MASTERFLEX, {wSTATUS})
  /\ PumpInitializedBefore
  /\ last.res = CMD_DATA
  /\ Len(Writes) = 1

(***************************************************************************)
(* C3: pump INIT failure path.  Starting with initialized false, if the    *)
(* reply read after ENQ is not a data line beginning with "P?", or the     *)
(* reply to the assignment frame is anything other than ACK, INIT returns  *)
(* ERROR and initialized remains false.                                    *)
(***************************************************************************)
C3_InitFailure ==
  (/\ InitCommand
   /\ ~PumpInitializedBefore
   /\ (~EnqReplyIsIdRequest \/ Classify(last.io.reply[2]) # RESP_ACK))
    => (last.res = CMD_ERROR /\ ResponseTag = "ERROR: " /\ ~PumpInitialized)

(***************************************************************************)
(* C4: for every line that resolves to a registered device the response    *)
(* prefix is "OK: ", "DATA: " or "ERROR: " exactly as the device returned  *)
(* Ok, Data or Error, and every malformed line (a non-global line whose    *)
(* device-id or command field is blank or missing) gets an "ERROR: "       *)
(* response.                                                               *)
(***************************************************************************)
C4_PrefixMatchesResult ==
  /\ (Dispatching /\ last.target # 0)
       => (/\ Len(Tagged(last.out)) = 1
           /\ ResponseTag = (IF last.res = CMD_OK THEN "OK: "
                             ELSE IF last.res = CMD_DATA THEN "DATA: " ELSE "ERROR: "))
  /\ (Dispatching /\ ~IsGlobalLine /\ ~WellFormedLine)
       => (Len(Tagged(last.out)) = 1 /\ ResponseTag = "ERROR: ")

(***************************************************************************)
(* C5: every non-empty command line produces exactly one response line,    *)
(* written to the transport the command came from, before the next line    *)
(* of that transport is dispatched; global commands included.              *)
(* As amended: it produces exactly one tagged response, at the start of a  *)
(* line, and everything written goes to the transport the command came     *)
(* from; in the Ethernet sketch that response is the only line written,    *)
(* in the serial-only sketch more lines are written only for HELP (six     *)
(* usage lines), for pump INIT (its debug trace) and for a pump STATUS     *)
(* whose reply carried LF bytes.                                           *)
(***************************************************************************)
RECURSIVE CountLF(_)
CountLF(text) ==
  IF text = <<>> THEN 0
  ELSE (IF Head(text) = "LF" THEN 1 ELSE 0) + CountLF(Tail(text))

RECURSIVE CountLFArgs(_)
CountLFArgs(args) ==
  IF args = <<>> THEN 0 ELSE CountLF(Head(args)) + CountLFArgs(Tail(args))

\* the number of line ends the output puts on the stream
RECURSIVE LineEnds(_)
LineEnds(out) ==
  IF out = <<>> THEN 0
  ELSE (IF Head(out).fn = "println" THEN 1 ELSE 0) + CountLFArgs(Head(out).args)
       + LineEnds(Tail(out))

AllToSameTransport == \A k \in 1..Len(last.out) : last.out[k].to = last.transport

TagStartsLine ==
  \A k \in 1..Len(last.out) :
    (last.out[k].tag # "" /\ k > 1) => last.out[k - 1].fn = "println"

DispatchedCommand == parseCommand(variant, trim(last.line), last.io.mem).command

C5_OneResponseLine ==
  Dispatching => (LineEnds(last.out) = 1 /\ AllToSameTransport)

C5_OneTaggedResponse ==
  Dispatching =>
    /\ Len(Tagged(last.out)) = 1
    /\ TagStartsLine
    /\ AllToSameTransport
    /\ variant = "ethernet" => (Len(last.out) = 1 /\ LineEnds(last.out) = 1)
    /\ (variant = "serial" /\ LineEnds(last.out) # 1) =>
         \/ equalsIgnoreCase(trim(last.line), wHELP) /\ LineEnds(last.out) = 7
         \/ last.target = PumpIndex /\ strcasecmp0(DispatchedCommand, wINIT)
         \/ /\ last.target = PumpIndex /\ strcasecmp0(DispatchedCommand, wSTATUS)
            /\ CountLF(last.io.reply[1]) > 0

C5_Witness ==
  /\ Dispatching
  /\ variant = "serial"
  /\ equalsIgnoreCase(trim(last.line), wHELP)
  /\ Len(last.out) = 7
  /\ Len(Tagged(last.out)) = 1

(***************************************************************************)
(* C6: a non-global line whose device-id field or command field is blank   *)
(* or missing yields the format-error response and no device's command     *)
(* handler is invoked: no device state changes, no bus activity.           *)
(***************************************************************************)
C6_MalformedRejected ==
  (Dispatching /\ ~IsGlobalLine /\ ~WellFormedLine)
    => /\ Len(Tagged(last.out)) = 1
       /\ ResponseTag = "ERROR: "
       /\ Tagged(last.out)[1].fmt = FORMAT_ERROR
       /\ last.target = 0
       /\ devices = last.before
       /\ last.log = <<>>
       /\ busProfile = last.profileBefore

(***************************************************************************)
(* C7: a well-formed line whose device identifier matches no registered    *)
(* device yields "ERROR: Device not found: <identifier as given>", and no  *)
(* device state changes and the bus is neither reconfigured nor used.      *)
(* An identifier of 15 characters or more fills deviceId without a         *)
(* terminator (C40) and the response shows what lies behind the array.     *)
(***************************************************************************)
UnknownDeviceLine == Dispatching /\ ~IsGlobalLine /\ WellFormedLine /\ Named = 0

NotFoundResponse(id) ==
  \/ last.out = << Out("print", "ERROR: ", "Device not found: ", <<>>),
                   Out("println", "", "%s", <<id>>) >>
  \/ last.out = << [Ret("ERROR: ", "Device not found: %s", <<id>>) EXCEPT !.to = last.transport] >>

C7_UnknownDevice ==
  UnknownDeviceLine
    => /\ NotFoundResponse(DeviceField)
       /\ last.target = 0
       /\ devices = last.before
       /\ last.log = <<>>
       /\ busProfile = last.profileBefore

\* the part that holds: the identifier is echoed when it is shorter than the
\* copy limit, and nothing changes for any unknown identifier
C7_ShortIdentifier ==
  UnknownDeviceLine
    => /\ Len(DeviceField) < DEVID_COPY => NotFoundResponse(DeviceField)
       /\ ResponseTag = "ERROR: "
       /\ last.target = 0
       /\ devices = last.before
       /\ last.log = <<>>
       /\ busProfile = last.profileBefore

(***************************************************************************)
(* C8: every relay starts OFF; each ON, OFF or TOGGLE command to a relay   *)
(* returns Ok and leaves the relay's recorded state at the value the       *)
(* command makes of the state before it (ON: on, OFF: off, TOGGLE: the     *)
(* opposite), so that the state after a sequence is its fold; the text of  *)
(* a global STATUS response contains "<id>:ON" for every relay that is on  *)
(* and "<id>:OFF" for every relay that is off.                             *)
(***************************************************************************)
RelayIndexes == {i \in 1..Len(devices) : devices[i].type = DEVICE_RELAY}

RelayFold(word, state) ==
  IF word = wON THEN TRUE ELSE IF word = wOFF THEN FALSE ELSE ~state

RelayCommandFolded ==
  \A w \in {wON, wOFF, wTOGGLE} :
    CommandFor(DEVICE_RELAY, {w})
      => /\ last.res = CMD_OK
         /\ ResponseTag = "OK: "
         /\ devices[Named].state = RelayFold(w, last.before[Named].state)
         /\ \A j \in 1..Len(devices) : j # Named => devices[j] = last.before[j]

GlobalStatusLine == Dispatching /\ equalsIgnoreCase(trim(last.line), wSTATUS)

StatusText == last.out[Len(last.out)].args[1]

StatusShowsRelays ==
  GlobalStatusLine =>
    \A i \in RelayIndexes :
      strstr(StatusText, devices[i].id \o <<":">> \o OnOff(devices[i].state))

C8_RelayFold ==
  /\ [][pc = "boot" => \A i \in 1..Len(devices') :
                         devices'[i].type = DEVICE_RELAY => ~devices'[i].state]_vars
  /\ [](RelayCommandFolded /\ StatusShowsRelays)

C8_Witness ==
  /\ GlobalStatusLine
  /\ devices[1].state
  /\ ~devices[4].state
  /\ strstr(StatusText, idREL(1) \o <<":","O","N">>)
  /\ strstr(StatusText, idREL(4) \o <<":","O","F","F">>)

(***************************************************************************)
(* C9: whenever a frame or a control byte is transmitted on the shared     *)
(* bus, the profile the bus has at that moment is the transmitting         *)
(* device's: 9600 8N1 for the valve, 4800 7O1 for the pump; this for any   *)
(* interleaving of valve and pump commands and within a global STATUS.     *)
(***************************************************************************)
\* valve frames start with '/', everything else on the bus is the pump's
SenderProfile(bytes) == IF bytes # <<>> /\ Head(bytes) = "/" THEN P_VICI ELSE P_MFLEX

C9_ProfileAtTransmit ==
  Dispatching =>
    \A k \in 1..Len(Writes) : Writes[k].profile = SenderProfile(Writes[k].data)

C9_Witness ==
  /\ GlobalStatusLine
  /\ PumpInitializedBefore
  /\ Len(Writes) = 2
  /\ Writes[1].profile = P_VICI
  /\ Writes[2].profile = P_MFLEX
  /\ last.profileBefore = P_MFLEX

(***************************************************************************)
(* C10: on an initialized pump, SPEED, START/GO, STOP/HALT, REV, REMOTE    *)
(* and LOCAL return Ok if and only if the reply classifies as ACK and      *)
(* Error otherwise (NAK, data line, no reply); STATUS returns Data if and  *)
(* only if the reply classifies as a data line and Error otherwise.        *)
(***************************************************************************)
AckWords == {wSPEED, wSTART, wGO, wSTOP, wHALT, wREV, wREMOTE, wLOCAL}

C10_ResultFollowsReply ==
  /\ (CommandFor(DEVICE_MASTERFLEX, AckWords) /\ PumpInitializedBefore)
       => /\ last.res = CMD_OK <=> Classify(last.io.reply[1]) = RESP_ACK
          /\ last.res \in {CMD_OK, CMD_ERROR}
          /\ ResponseTag = (IF last.res = CMD_OK THEN "OK: " ELSE "ERROR: ")
  /\ (CommandFor(DEVICE_MASTERFLEX, {wSTATUS}) /\ PumpInitializedBefore)
       => /\ last.res = CMD_DATA <=> Classify(last.io.reply[1]) = RESP_LINE
          /\ last.res \in {CMD_DATA, CMD_ERROR}
          /\ ResponseTag = (IF last.res = CMD_DATA THEN "DATA: " ELSE "ERROR: ")

C10_Witness ==
  /\ CommandFor(DEVICE_MASTERFLEX, {wSPEED})
  /\ PumpInitializedBefore
  /\ Classify(last.io.reply[1]) = RESP_ACK
  /\ last.res = CMD_OK

(***************************************************************************)
(* C11: a valve motion command (GOTO with a position, TOGGLE, HOME, CW,    *)
(* CCW) transmits exactly one frame, '/' address core-command CR, reads    *)
(* nothing from the bus and returns Ok.                                    *)
(***************************************************************************)
ParamField == IF Len(LineFields) >= 3 THEN LineFields[3] ELSE <<>>

\* the core command the valve protocol gives to a motion word
ValveCore(w) ==
  IF w = wGOTO THEN <<"G","O">> \o ParamField
  ELSE IF w = wTOGGLE THEN <<"T","O">>
  ELSE IF w = wHOME THEN <<"H","M">>
  ELSE IF w = wCW THEN <<"C","W">>
  ELSE <<"C","C">>

ValveMotion(w) ==
  CommandFor(DEVICE_VICI, {w}) /\ (w = wGOTO => ParamField # <<>>)

C11_ValveMotionOneFrame ==
  CommandFor(DEVICE_VICI, {wGOTO, wTOGGLE, wHOME, wCW, wCCW}) =>
    \A w \in {wGOTO, wTOGGLE, wHOME, wCW, wCCW} :
      ValveMotion(w)
        => /\ Len(Writes) = 1
           /\ Writes[1].data = <<"/">> \o last.before[Named].addr \o ValveCore(w) \o <<"CR">>
           /\ ReadsDone = <<>>
           /\ last.res = CMD_OK
           /\ ResponseTag = "OK: "
           /\ devices = last.before

C11_Witness ==
  /\ ValveMotion(wGOTO)
  /\ Writes[1].data = <<"/","3","G","O","B","CR">>
  /\ last.res = CMD_OK

(***************************************************************************)
(* C12: a valve POSITION or STATUS command returns Data carrying the       *)
(* received payload when the bus delivers a line (payload bytes followed   *)
(* by CR, or by silence) and returns Error when the bus delivers nothing;  *)
(* it returns nothing else.                                                *)
(***************************************************************************)
ValveQuery == CommandFor(DEVICE_VICI, {wPOSITION, wSTATUS})

\* the payload of a reply that is one line: ordinary bytes, then CR or silence
IsPayload(bytes) ==
  bytes # <<>> /\ \A k \in 1..Len(bytes) : bytes[k] \notin {"CR", "LF", "GAP"}

LinePayload(reply) ==
  IF reply # <<>> /\ reply[Len(reply)] = "CR" THEN SubSeq(reply, 1, Len(reply) - 1) ELSE reply

ResponseArgs == last.out[Len(last.out)].args

C12_ValveQueryResult ==
  ValveQuery
    => /\ IsPayload(LinePayload(last.io.reply[1]))
            => (/\ last.res = CMD_DATA
                /\ ResponseTag = "DATA: "
                /\ ResponseArgs = <<last.before[Named].id, LinePayload(last.io.reply[1])>>)
       /\ last.io.reply[1] = <<>> => (last.res = CMD_ERROR /\ ResponseTag = "ERROR: ")
       /\ last.res \in {CMD_DATA, CMD_ERROR}
       /\ devices = last.before

C12_Witness ==
  /\ ValveQuery
  /\ last.io.reply[1] = <<"B","CR">>
  /\ last.res = CMD_DATA
  /\ ResponseArgs[2] = <<"B">>

C12_WitnessNoResponse ==
  /\ ValveQuery
  /\ last.io.reply[1] = <<>>
  /\ last.res = CMD_ERROR

(***************************************************************************)
(* C13: changing the letter case of the device identifier, of the command  *)
(* token or of a global command (STATUS, HELP) never changes the outcome.  *)
(* For every dispatched line, the line with its first field, its second    *)
(* field or both put in lower or in upper case, handled from the same      *)
(* state under the same bus behaviour, resolves the same device, returns   *)
(* the same result with the same tag and message format, leaves the same   *)
(* device state and bus profile and puts the same events on the bus.       *)
(***************************************************************************)
LowerCase(s) ==
  [i \in 1..Len(s) |->
     IF \E k \in 1..26 : UpperChars[k] = s[i]
     THEN LowerChars[CHOOSE k \in 1..26 : UpperChars[k] = s[i]] ELSE s[i]]

UpperCase(s) ==
  [i \in 1..Len(s) |->
     IF \E k \in 1..26 : LowerChars[k] = s[i]
     THEN UpperChars[CHOOSE k \in 1..26 : LowerChars[k] = s[i]] ELSE s[i]]

Recase(how, s) == IF how = "lower" THEN LowerCase(s) ELSE IF how = "upper" THEN UpperCase(s) ELSE s

RECURSIVE JoinFields(_)
JoinFields(fs) ==
  IF Len(fs) = 1 THEN fs[1] ELSE fs[1] \o <<":">> \o JoinFields(Tail(fs))

\* the fields of the raw line with the first recased by h1, the second by h2
Recased(fs, h1, h2) ==
  JoinFields([k \in 1..Len(fs) |->
                IF k = 1 THEN Recase(h1, fs[k]) ELSE IF k = 2 THEN Recase(h2, fs[k]) ELSE fs[k]])

RecasedLine(h1, h2) == Recased(Fields(last.line, <<>>), h1, h2)

SameOutcome(h) ==
  /\ h.target = last.target
  /\ h.res = last.res
  /\ h.devices = devices
  /\ h.bus.profile = busProfile
  /\ h.bus.log = last.log
  /\ Len(h.out) = Len(last.out)
  /\ \A k \in 1..Len(h.out) : h.out[k].tag = last.out[k].tag /\ h.out[k].fmt = last.out[k].fmt

C13_CaseInsensitive ==
  Dispatching =>
    \A line \in With(LAMBDA fs : { Recased(fs, h1, h2) : h1, h2 \in {"same", "lower", "upper"} },
                     Fields(last.line, <<>>)) \ {last.line} :
      With(SameOutcome,
           Handle(variant, last.before, NewBus(last.profileBefore, TRUE, last.io), line))

C13_Witness ==
  /\ CommandFor(DEVICE_MASTERFLEX, {wSTART})
  /\ last.line = Ln(idMFLEX, wSTART)
  /\ RecasedLine("lower", "lower") = <<"m","f","l","e","x","_","0","1",":","s","t","a","r","t">>
  /\ last.res = CMD_OK
  /\ Len(Writes) = 1

(***************************************************************************)
(* C14: when a bus transaction fails, the issuing command returns Error    *)
(* and every relay's state and the pump's initialized flag are as before   *)
(* the command.  A transaction fails when its reply is absent, is NAK, is  *)
(* of the wrong class (a data line where ACK is required, ACK where a      *)
(* data line is required) or, for the pump, is text without the CR         *)
(* terminator.  The transactions are the valve's POSITION and STATUS       *)
(* queries, the pump's commands on an initialized pump and the two steps   *)
(* of the pump's INIT.                                                     *)
(***************************************************************************)
IsText(bytes) ==
  /\ bytes # <<>>
  /\ \A k \in 1..Len(bytes) : bytes[k] \notin {"CR", "LF", "GAP", "ACK", "NAK", "STX", "ENQ"}

IsTerminatedLine(reply) ==
  reply # <<>> /\ reply[Len(reply)] = "CR" /\ IsText(SubSeq(reply, 1, Len(reply) - 1))

\* the reply fails a transaction that requires ACK
FailsAck(reply) == reply = <<>> \/ reply = <<"NAK">> \/ IsTerminatedLine(reply) \/ IsText(reply)

\* the reply fails a transaction that requires a data line
FailsLine(reply) == reply = <<>> \/ reply = <<"NAK">> \/ reply = <<"ACK">> \/ IsText(reply)

TransactionFailed ==
  \/ ValveQuery /\ last.io.reply[1] = <<>>
  \/ CommandFor(DEVICE_MASTERFLEX, AckWords) /\ PumpInitializedBefore /\ FailsAck(last.io.reply[1])
  \/ CommandFor(DEVICE_MASTERFLEX, {wSTATUS}) /\ PumpInitializedBefore /\ FailsLine(last.io.reply[1])
  \/ InitCommand /\ FailsLine(last.io.reply[1])
  \/ InitCommand /\ Len(Writes) = 2 /\ FailsAck(last.io.reply[2])

C14_FailureLeavesState ==
  TransactionFailed => (last.res = CMD_ERROR /\ ResponseTag = "ERROR: " /\ devices = last.before)

\* the part about the state alone: a command that returns Error changes nothing
C14_ErrorLeavesState ==
  (Dispatching /\ last.target # 0 /\ last.res = CMD_ERROR) => devices = last.before

(***************************************************************************)
(* C15: the global STATUS command always yields one response, tagged       *)
(* "DATA: ", on one line, whatever the bus does, and changes no device     *)
(* state.  Its text has "<id>:ON" or "<id>:OFF" for every relay,           *)
(* "<id>:UNKNOWN" for the valve when the position query gets no reply,     *)
(* "<id>:NOT_INIT" for the pump when it is not initialized and             *)
(* "<id>:UNKNOWN" for the initialized pump when the reply to its query     *)
(* does not classify as a data line.                                       *)
(***************************************************************************)
ValveIndex == CHOOSE i \in 1..Len(devices) : devices[i].type = DEVICE_VICI

tUNKNOWN == <<":","U","N","K","N","O","W","N">>

tNOT_INIT == <<":","N","O","T","_","I","N","I","T">>

C15_GlobalStatusNeverFails ==
  GlobalStatusLine =>
    /\ Len(Tagged(last.out)) = 1
    /\ ResponseTag = "DATA: "
    /\ LineEnds(last.out) = 1
    /\ last.res # CMD_ERROR
    /\ devices = last.before
    /\ \A i \in RelayIndexes :
         strstr(StatusText, devices[i].id \o <<":">> \o OnOff(devices[i].state))
    /\ last.io.reply[1] = <<>> => strstr(StatusText, devices[ValveIndex].id \o tUNKNOWN)
    /\ ~PumpInitializedBefore => strstr(StatusText, devices[PumpIndex].id \o tNOT_INIT)
    /\ (PumpInitializedBefore /\ Classify(last.io.reply[2]) # RESP_LINE)
         => strstr(StatusText, devices[PumpIndex].id \o tUNKNOWN)

C15_Witness ==
  /\ GlobalStatusLine
  /\ PumpInitializedBefore
  /\ last.io.reply = << <<>>, <<"NAK">> >>
  /\ strstr(StatusText, idVICI \o tUNKNOWN)
  /\ strstr(StatusText, idMFLEX \o tUNKNOWN)
  /\ ResponseTag = "DATA: "

(***************************************************************************)
(* C16: the aggregate status lists the status string of every enabled      *)
(* device and of no disabled device, exactly once each, in registration    *)
(* order, joined by ", ", with no leading, trailing or doubled separator.  *)
(* Checked on the registries addDevice builds, of every length from 0 to   *)
(* the capacity, with the buffer of the STATUS command; on these every     *)
(* registered device is enabled.                                           *)
(***************************************************************************)
\* the status strings of the enabled devices from device i on, in order
RECURSIVE StatusList(_, _, _, _)
StatusList(v, devs, i, bus) ==
  IF i > Len(devs) THEN <<>>
  ELSE IF ~devs[i].enabled THEN StatusList(v, devs, i + 1, bus)
  ELSE LET listed(g) == <<g.status>> \o StatusList(v, devs, i + 1, g.bus)
       IN listed(getStatus(v, devs[i], bus, IF v = "serial" THEN 64 ELSE 96))

RECURSIVE JoinStatus(_)
JoinStatus(list) ==
  IF list = <<>> THEN <<>>
  ELSE IF Len(list) = 1 THEN list[1]
  ELSE list[1] \o <<",", " ">> \o JoinStatus(Tail(list))

StatusCall == last.op = "getAllStatus" /\ last.size = STATUS_BUFFER

C16_AggregateListsEnabled ==
  StatusCall =>
    /\ \A i \in 1..Len(last.before) : last.before[i].enabled
    /\ last.text = JoinStatus(StatusList(variant, last.before, 1, NewBus(P_NONE, FALSE, last.io)))
    /\ Len(StatusList(variant, last.before, 1, NewBus(P_NONE, FALSE, last.io))) = Len(last.before)
    /\ ~strstr(last.text, <<",", " ", ",">>)
    /\ last.text # <<>> => (Head(last.text) # "," /\ last.text[Len(last.text)] \notin {",", " "})
    /\ devices = last.before

C16_Witness ==
  /\ StatusCall
  /\ Len(last.before) = MAX_DEVICES
  /\ last.before[1].type = DEVICE_VICI
  /\ last.before[2].type = DEVICE_MASTERFLEX
  /\ IsPrefix(idVICI \o <<":","P","O","S","_","B",",", " ">> \o idMFLEX \o tNOT_INIT
                \o <<",", " ","D","E","V","_","3",":","O","F","F",",", " ">>, last.text)

(***************************************************************************)
(* C17: for any destination buffer size and any number and length of       *)
(* device status strings, the aggregate status written is terminated       *)
(* inside the destination buffer and is never longer than the buffer size  *)
(* minus one: the bytes written, terminator included, are never more than  *)
(* the size of the buffer.                                                 *)
(***************************************************************************)
AnyStatusCall == last.op = "getAllStatus"

C17_AggregateFitsBuffer ==
  AnyStatusCall =>
    /\ last.written <= last.size
    /\ last.size >= 1 => Len(last.text) <= last.size - 1

\* the same for the buffers of at least one byte
C17_FitsFromSizeOne ==
  (AnyStatusCall /\ last.size >= 1) =>
    (last.written <= last.size /\ Len(last.text) <= last.size - 1)

\* a call on such a buffer that clips the text inside a separator
C17_ClippedInSeparator ==
  /\ AnyStatusCall
  /\ last.size = MaxBuffer
  /\ Len(last.text) = MaxBuffer - 1
  /\ last.text[Len(last.text)] = ","

(***************************************************************************)
(* C18: registering a device when the registry already holds 16 devices    *)
(* returns failure and leaves the count, the 16 entries and their          *)
(* identifiers unchanged; the rejected device is not initialized (it stays *)
(* as constructed, not enabled) and cannot be found afterwards: a lookup   *)
(* on the full registry yields one of the 16 entries, under the            *)
(* identifier it was registered with, or nothing.                          *)
(***************************************************************************)
RegisterOnFull == last.op = "addDevice" /\ Len(last.before) = MAX_DEVICES

LookUpOnFull == last.op = "findDevice" /\ Len(last.before) = MAX_DEVICES

C18_FullRegistryRejects ==
  /\ Len(devices) <= MAX_DEVICES
  /\ RegisterOnFull
       => /\ ~last.ok
          /\ devices = last.before
          /\ Len(devices) = MAX_DEVICES
          /\ last.device = last.arg
          /\ ~last.device.enabled
  /\ LookUpOnFull
       => /\ last.found \in 0..MAX_DEVICES
          /\ last.found # 0 => strcasecmp0(devices[last.found].id, last.arg)
          /\ last.found = 0 <=> \A i \in 1..MAX_DEVICES : ~strcasecmp0(devices[i].id, last.arg)
          /\ devices = last.before

C18_Witness ==
  /\ RegisterOnFull
  /\ last.arg = Roster(MAX_DEVICES + 1)
  /\ ~last.ok
  /\ findDevice(devices, last.arg.id) = 0

C18_WitnessLookUp ==
  /\ LookUpOnFull
  /\ last.arg = Roster(MAX_DEVICES + 1).id
  /\ last.found = 0

(***************************************************************************)
(* C19: in every reachable state of the registry, after any sequence of    *)
(* register operations, at most one registered device carries a given      *)
(* identifier under case-insensitive comparison.  The registry of the      *)
(* firmware is filled by the register operations of setup() and by no      *)
(* other: in every state of either sketch, before, during and after the    *)
(* commands, no two of its devices have the same identifier.               *)
(***************************************************************************)
C19_UniqueIdentifiers ==
  \A i, j \in 1..Len(devices) : strcasecmp0(devices[i].id, devices[j].id) => i = j

C19_Witness ==
  /\ pc = "served"
  /\ Len(devices) = 6
  /\ devices[1].id = idREL(1) /\ devices[4].id = idREL(4)
  /\ devices[5].id = idVICI /\ devices[6].id = idMFLEX
  /\ last.line = Ln(lower(idREL(1)), lower(wON))
  /\ last.target = 1

(***************************************************************************)
(* C20: in the Ethernet firmware startup completes, and a command line     *)
(* sent by a TCP client is eventually answered, even if no serial (USB)    *)
(* connection is ever established.  In every behaviour of the Ethernet     *)
(* sketch in which the serial port never comes up, setup() is left, and    *)
(* every line completed on the TCP connection leads to its one tagged      *)
(* response on that connection.                                            *)
(***************************************************************************)
TcpLineSent == pc = "clientDispatch"

TcpLineAnswered ==
  /\ pc = "clientServed"
  /\ last.transport = "tcp"
  /\ Len(Tagged(last.out)) = 1
  /\ last.out[Len(last.out)].to = "tcp"

C20_HeadlessTcpAnswered ==
  \/ variant # "ethernet"
  \/ <>serialUp
  \/ (<>(pc # "boot") /\ (TcpLineSent ~> TcpLineAnswered))

C20_Witness ==
  /\ variant = "ethernet"
  /\ ~serialUp
  /\ TcpLineAnswered
  /\ last.line = Ln(idREL(1), wON)
  /\ ResponseTag = "OK: "

(***************************************************************************)
(* C21: after any command that yields an ERROR response (format, routing,  *)
(* device-level or bus timeout error) control returns to the polling loop  *)
(* (for a TCP line: to the reading of the client), and a command line      *)
(* received then is dispatched and answered with its one tagged response:  *)
(* no error stops the firmware from serving later commands.  The polling   *)
(* loop goes on where the command was called: it ends the pass, or it      *)
(* completes the line that waits behind the command.                       *)
(***************************************************************************)
ErrorAnswered == Dispatching /\ Len(Tagged(last.out)) >= 1 /\ ResponseTag = "ERROR: "

Polling == pc \in {"loop", "client"}

LineReceived == pc \in {"dispatch", "clientDispatch"}

LineAnswered == Dispatching /\ Len(Tagged(last.out)) = 1

C21_ErrorsAreNotFatal ==
  /\ ErrorAnswered ~> (Polling \/ LineReceived)
  /\ LineReceived ~> LineAnswered
  /\ [][ErrorAnswered => /\ Polling' \/ LineReceived'
                         /\ devices' = devices /\ busProfile' = busProfile]_vars

C21_Witness ==
  /\ ErrorAnswered
  /\ ValveQuery
  /\ last.io.reply[1] = <<>>
  /\ last.res = CMD_ERROR
  /\ pc = "served"

(***************************************************************************)
(* C22: no command retransmits.  A line other than the global STATUS puts  *)
(* at most one frame on the bus (a valve command, a pump command other     *)
(* than INIT), and INIT at most the ENQ byte followed by one assignment    *)
(* frame; there are never more reads than transmissions, and a command     *)
(* that ends in Error after a read transmitted nothing after that read.    *)
(***************************************************************************)
\* the dispatched line is a well-formed command for a device of type t
DeviceCommand(t) ==
  /\ Dispatching /\ ~IsGlobalLine /\ WellFormedLine
  /\ Named # 0 /\ last.before[Named].type = t

ValveCommand == DeviceCommand(DEVICE_VICI)

PumpCommand == DeviceCommand(DEVICE_MASTERFLEX)

\* the indexes in the log of the events of the operation
At(op) == {i \in 1..Len(last.log) : last.log[i].op = op}

Last(at) == IF at = {} THEN 0 ELSE CHOOSE i \in at : \A j \in at : j <= i

First(at) == IF at = {} THEN 0 ELSE CHOOSE i \in at : \A j \in at : i <= j

\* the index in the log of the last event of the operation
LastIndexOf(op) == Last(At(op))

EnqThenFrame(at) ==
  /\ Cardinality(at) = 2
  /\ last.log[First(at)].data = <<"ENQ">>
  /\ last.log[Last(at)].data # <<"ENQ">>
  /\ last.log[Last(at)].data[1] = "STX"

\* a line other than the global STATUS, whose report queries two devices
OneCommand(at) ==
  /\ Cardinality(at) >= 2 => (InitCommand /\ EnqThenFrame(at))
  /\ (Cardinality(at) = 1 /\ InitCommand) => last.log[First(at)].data = <<"ENQ">>
  /\ Cardinality(At("read")) <= Cardinality(at)
  /\ (last.res = CMD_ERROR /\ At("read") # {}) => Last(at) < LastIndexOf("read")

C22_NoRetransmission ==
  (Dispatching /\ last.log # <<>> /\ ~IsGlobalLine) => OneCommand(At("write"))

C22_Witness ==
  /\ InitCommand
  /\ last.res = CMD_ERROR
  /\ Len(Writes) = 2
  /\ Len(ReadsDone) = 2

C22_WitnessValve ==
  /\ ValveCommand
  /\ last.res = CMD_ERROR
  /\ Len(Writes) = 1

(***************************************************************************)
(* C23: at most one command is being executed at any time across both      *)
(* transports, and bus transactions never overlap.  A line is held for     *)
(* dispatch in one place only and only while it is dispatched; the bus and *)
(* the devices change in the step of that one command and in no other     *)
(* step after setup; and in the bus activity of a command every            *)
(* transmission is one uninterrupted run noReceive, write, flush, guard,   *)
(* receive in one profile, followed at once by its read if it has one.     *)
(***************************************************************************)
CommandHeld == commandStr # <<>>

TransmitOps == <<"noReceive", "write", "flush", "guard", "receive">>

\* the write at index i of the log stands in a whole transmission
WholeTransmission(log, i) ==
  /\ i >= 2 /\ i + 3 <= Len(log)
  /\ \A k \in 1..5 : /\ log[i - 2 + k].op = TransmitOps[k]
                     /\ log[i - 2 + k].profile = log[i].profile

\* the read at index i of the log follows the transmission it answers
ReadFollowsTransmission(log, i) ==
  /\ i >= 6
  /\ log[i - 4].op = "write"
  /\ log[i - 1].op = "receive"
  /\ log[i].profile = log[i - 4].profile

Sequential(log) ==
  \A i \in 1..Len(log) :
    /\ log[i].op = "write" => WholeTransmission(log, i)
    /\ log[i].op = "read" => ReadFollowsTransmission(log, i)

C23_OneCommandAtATime ==
  /\ [](CommandHeld <=> pc \in {"dispatch", "clientDispatch"})
  /\ [](last.log # <<>> => (Dispatching /\ Sequential(last.log)))
  /\ [][(pc # "boot" /\ (busProfile' # busProfile \/ devices' # devices))
          => (CommandHeld /\ ~CommandHeld' /\ Dispatching')]_vars

C23_Witness ==
  /\ Dispatching
  /\ variant = "ethernet"
  /\ last.transport = "tcp"
  /\ Len(Writes) = 2
  /\ Len(ReadsDone) = 2
  /\ busProfile # last.profileBefore

(***************************************************************************)
(* C24: while a TCP client is connected no serial command line is          *)
(* dispatched and nothing happens on the bus except through the commands   *)
(* of that client: no console character is read, every command served is   *)
(* a command of the client, and the bus and the devices change only in     *)
(* the dispatch of a client line.  Serial input is serviced again only     *)
(* after the client has disconnected.                                      *)
(***************************************************************************)
Connected == pc \in {"client", "clientDispatch", "clientServed"}

C24_ClientHoldsTheLoop ==
  /\ [](Connected /\ Dispatching => last.transport = "tcp")
  /\ [](Connected /\ CommandHeld => pc = "clientDispatch")
  /\ [][Connected =>
          /\ serialBuffer' = serialBuffer
          /\ pc' # "dispatch"
          /\ Connected' \/ (pc = "client" /\ pc' = "afterClient")
          /\ (busProfile' # busProfile \/ busReceiving' # busReceiving \/ devices' # devices)
               => (pc = "clientDispatch" /\ last'.transport = "tcp")]_vars
  /\ [][pc' = "dispatch" => ~Connected]_vars

C24_Witness ==
  /\ Connected
  /\ serialUp
  /\ Dispatching
  /\ Len(Writes) >= 1
  /\ busProfile # last.profileBefore

(***************************************************************************)
(* C25: issuing the same successful command twice, with the bus giving the *)
(* same replies each time, produces two successes, and the outcome of the  *)
(* second depends neither on the first nor on a command to the other bus   *)
(* device issued in between: whatever profile the bus was left in and      *)
(* whatever bytes are still buffered when the second is issued, it         *)
(* transmits the same frames, reads the same replies and has the same      *)
(* result.                                                                 *)
(***************************************************************************)
BusCommand == ValveCommand \/ PumpCommand

\* the command issued again, the bus left in profile p with the bytes
\* buffered still to come
IssuedAgain(p, buffered) ==
  Handle(variant, devices, NewBus(p, TRUE, [last.io EXCEPT !.stale = buffered]), last.line)

Exchanged(log) ==
  [w |-> [i \in 1..Len(Select(log, "write")) |-> Select(log, "write")[i].data],
   r |-> [i \in 1..Len(Select(log, "read")) |-> Select(log, "read")[i].res]]

SameAgain(h) ==
  /\ h.res = last.res
  /\ Exchanged(h.bus.log) = Exchanged(last.log)

C25_RepeatIndependent ==
  (BusCommand /\ last.res \in {CMD_OK, CMD_DATA}) =>
    \A p \in {P_VICI, P_MFLEX}, buffered \in Stale : SameAgain(IssuedAgain(p, buffered))

(***************************************************************************)
(* C26: after any INIT that returns Error the pump is Uninitialized        *)
(* (`initialized` is false), also when an earlier INIT had initialized it. *)
(***************************************************************************)
InitFailed == InitCommand /\ last.res = CMD_ERROR

C26_FailedInitUninitialized == InitFailed => ~PumpInitialized

(***************************************************************************)
(* C27: while `initialized` is false the pump transmits nothing on the bus *)
(* except the ENQ byte and the address-assignment frame of INIT: a line    *)
(* dispatched while the pump is uninitialized, be it a pump command or the *)
(* global STATUS, puts no frame on the bus in the pump's profile unless it *)
(* is INIT.                                                                *)
(***************************************************************************)
PumpWrites == {i \in 1..Len(last.log) : last.log[i].op = "write" /\ last.log[i].profile = P_MFLEX}

UninitializedBefore == Dispatching /\ Len(last.before) >= 1 /\ ~PumpInitializedBefore

C27_UninitializedPumpSilent ==
  (UninitializedBefore /\ ~InitCommand) => PumpWrites = {}

(***************************************************************************)
(* C28: within INIT the address-assignment frame is transmitted only after *)
(* the ENQ byte has been transmitted and a data line beginning with "P?"   *)
(* has been received in reply; if the ENQ reply is anything else no        *)
(* assignment frame is transmitted; and `initialized` is never set true    *)
(* without an ACK received after the assignment frame.                     *)
(***************************************************************************)
AssignmentSent == InitCommand /\ Len(Writes) >= 2

\* the flag went from false to true in this command
BecameInitialized == Dispatching /\ Len(last.before) >= 1 /\ PumpInitialized /\ ~PumpInitializedBefore

AckAfterAssignment ==
  /\ AssignmentSent
  /\ Len(ReadsDone) = 2
  /\ ReadsDone[2].res = RESP_ACK
  /\ LastIndexOf("write") < LastIndexOf("read")

C28_InitOrder ==
  /\ AssignmentSent =>
       /\ Writes[1].data = <<"ENQ">>
       /\ EnqReplyIsIdRequest
  /\ BecameInitialized => AckAfterAssignment

(***************************************************************************)
(* C29: only INIT changes the pump's `initialized` flag.  Every other      *)
(* command to any device, every global command and every error path       *)
(* leaves it as it was, and the outcome of INIT does not depend on the     *)
(* commands issued before it: dispatched on the devices as setup() left    *)
(* them, the flag alone as it is now, the bus never configured and nothing *)
(* of an earlier reply buffered, the same INIT exchanges the same bytes    *)
(* and ends with the same result and the same flag.                        *)
(***************************************************************************)
\* the registry as setup() leaves it
PoweredOn ==
  AddAll(variant, <<>>, << RelayDevice(idREL(1), 1), RelayDevice(idREL(2), 2),
                           RelayDevice(idREL(3), 3), RelayDevice(idREL(4), 4),
                           ViciDevice(idVICI, "3"),
                           MasterflexDevice(idMFLEX, <<"0","1">>) >>)

WithFlag(devs, flag) ==
  [i \in 1..Len(devs) |->
     IF devs[i].type = DEVICE_MASTERFLEX THEN [devs[i] EXCEPT !.initialized = flag] ELSE devs[i]]

\* the line dispatched with no command before it, the receive buffer
\* holding the bytes buffered
WithoutHistory(buffered) ==
  Handle(variant, WithFlag(PoweredOn, PumpInitializedBefore),
         NewBus(P_NONE, TRUE, [last.io EXCEPT !.stale = buffered]), last.line)

SameInit(h) ==
  /\ SameAgain(h)
  /\ h.devices[PumpIndex].initialized = PumpInitialized

FlagChanged == Dispatching /\ Len(last.before) >= 1 /\ PumpInitialized # PumpInitializedBefore

C29_OnlyInitSetsFlag ==
  /\ FlagChanged => (InitCommand /\ last.res = CMD_OK)
  /\ InitCommand => \A buffered \in Stale : SameInit(WithoutHistory(buffered))

\* the part that holds in both sketches: the flag changes in a successful
\* INIT only
C29_FlagFrame == FlagChanged => (InitCommand /\ last.res = CMD_OK)

(***************************************************************************)
(* C30: every bus transaction, each transmission of a frame or control     *)
(* byte followed by its response read, is preceded by its own bus          *)
(* reconfiguration (end, begin with the device's parameters, stabilization *)
(* delay): between two transmissions of a command there is always a        *)
(* reconfiguration, the ENQ step and the address-assignment step of the    *)
(* pump handshake included.                                                *)
(***************************************************************************)
\* the write at index i of the log has a reconfiguration of its own before it
OwnReconfiguration(log, i) ==
  \E j \in 1..(i - 1) :
    /\ j + 3 < i
    /\ log[j].op = "end"
    /\ log[j + 1].op = "begin" /\ log[j + 1].profile = log[i].profile
    /\ log[j + 3].op = "delay"
    /\ \A k \in (j + 1)..(i - 1) : log[k].op \notin {"write", "end"}

C30_OwnReconfiguration ==
  Dispatching =>
    \A i \in 1..Len(last.log) : last.log[i].op = "write" => OwnReconfiguration(last.log, i)

(***************************************************************************)
(* C31: before every transmission on the bus (valve frames, pump frames    *)
(* and the ENQ byte of INIT) the receive buffer is drained: in the bus     *)
(* activity of a command the drain comes directly before the transmission, *)
(* so that no byte queued before it is read as part of the reply.          *)
(***************************************************************************)
\* the write at index i of the log has a drain directly before its transmission
DrainedBefore(log, i) == i >= 3 /\ log[i - 1].op = "noReceive" /\ log[i - 2].op = "drain"

C31_DrainBeforeTransmit ==
  Dispatching => \A i \in At("write") : DrainedBefore(last.log, i)

(***************************************************************************)
(* C32: during every transmission the bus receiver is disabled before the  *)
(* first byte is written and is re-enabled only after the write, flush and *)
(* guard delay have completed; whenever a command returns to the polling   *)
(* loop the bus is back in receive mode.                                   *)
(***************************************************************************)
\* whether the receiver is enabled when the event at index i of the log
\* happens: the last of receive and noReceive before it decides
ReceiverOnAt(log, i) ==
  LET sw == {j \in 1..(i - 1) : log[j].op \in {"receive", "noReceive"}}
  IN sw # {} /\ log[Last(sw)].op = "receive"

TransmissionsGuarded(log) ==
  \A i \in 1..Len(log) :
    /\ log[i].op \in {"write", "flush", "guard"} => ~ReceiverOnAt(log, i)
    /\ log[i].op = "write" =>
         /\ i + 3 <= Len(log)
         /\ log[i + 1].op = "flush" /\ log[i + 2].op = "guard" /\ log[i + 3].op = "receive"
    /\ log[i].op = "read" => ReceiverOnAt(log, i)

\* the statement as written: back in receive mode after every command
C32_ReceiveModeRestored ==
  /\ [](Dispatching => TransmissionsGuarded(last.log))
  /\ [][Dispatching => busReceiving']_vars

\* a pass of loop() ends
PassEnds == pc \in {"loop", "served", "afterClient"} /\ pc' = "loop" /\ serialUp' = serialUp

\* what holds: the transmissions are guarded as stated; a command that used
\* the bus returns in receive mode; a command dispatched in receive mode
\* returns in receive mode; and every pass of loop() ends in receive mode.
\* Only a command that uses no bus, dispatched before the receiver was ever
\* enabled, returns with the receiver off
C32_ReceiveModeAfterUse ==
  /\ [](Dispatching => TransmissionsGuarded(last.log))
  /\ []((Dispatching /\ last.log # <<>>) => busReceiving)
  /\ [][(pc \in {"dispatch", "clientDispatch"} /\ busReceiving) => busReceiving']_vars
  /\ [][PassEnds => busReceiving']_vars

(***************************************************************************)
(* C33: the pump response reader classifies a reply as ACK only if the     *)
(* reply consists of the single byte 0x06, as NAK only if it consists of   *)
(* the single byte 0x15, as a data line only if it is a non-empty          *)
(* CR-terminated line, and as none if nothing is received before the       *)
(* timeout; a 0x06 or 0x15 arriving after other payload bytes is not       *)
(* classified as ACK or NAK.  The reply is what the reader has taken from  *)
(* the bus when it returns, silences apart.                                *)
(***************************************************************************)
PumpRead == pc = "returned" /\ last.op = "readMasterflexResponse"

ValveRead == pc = "returned" /\ last.op = "readLine"

RECURSIVE Without(_, _)
Without(q, drop) ==
  IF q = <<>> THEN <<>>
  ELSE IF Head(q) \in drop THEN Without(Tail(q), drop)
  ELSE <<Head(q)>> \o Without(Tail(q), drop)

\* the bytes the reader took before it returned
Taken == Without(SubSeq(last.received, 1, Len(last.received) - Len(last.ret.rest)), {"GAP"})

\* a non-empty run of payload bytes closed by CR; newlines do not count
IsDataLine(bytes) ==
  /\ bytes # <<>> /\ bytes[Len(bytes)] = "CR"
  /\ Without(bytes, {"LF"}) # <<"CR">>
  /\ \A k \in 1..(Len(bytes) - 1) : bytes[k] \notin {"CR", "ACK", "NAK"}

C33_PumpClassification ==
  PumpRead =>
    /\ last.ret.type = RESP_ACK => Taken = <<"ACK">>
    /\ last.ret.type = RESP_NAK => Taken = <<"NAK">>
    /\ last.ret.type = RESP_LINE => IsDataLine(Taken)
    /\ Without(last.received, {"GAP"}) = <<>> => last.ret.type = RESP_NONE

(***************************************************************************)
(* C34: when the pump's reply is a run of bytes with no CR terminator by   *)
(* the deadline, the pump response reader returns the same class as when   *)
(* nothing arrives at all, RESP_NONE, in both sketches: a partial reply    *)
(* never counts as a data line.                                            *)
(***************************************************************************)
\* payload bytes arrived, and neither a terminator nor a control byte
PartialReply(q) ==
  /\ \E k \in 1..Len(q) : q[k] \in {"B", "C"}
  /\ \A k \in 1..Len(q) : q[k] \notin {"CR", "ACK", "NAK"}

C34_PartialReplyIsNone ==
  (PumpRead /\ PartialReply(last.received)) =>
    last.ret.type = readMasterflexResponse(variant, <<>>, last.max).type

(***************************************************************************)
(* C35: the valve line reader returns the bytes received before the first  *)
(* carriage return, in order, with newline bytes dropped and the carriage  *)
(* return excluded; it stops at the first CR, or once no byte has arrived  *)
(* for the gap interval after at least one byte was received, or at the    *)
(* total timeout, and it reports success exactly when at least one payload *)
(* byte was collected.                                                     *)
(***************************************************************************)
\* the index of the first element of q that is in S; Len(q) + 1 if none is
FirstOf(q, S) ==
  IF \E k \in 1..Len(q) : q[k] \in S
  THEN CHOOSE k \in 1..Len(q) : q[k] \in S /\ \A j \in 1..(k - 1) : q[j] \notin S
  ELSE Len(q) + 1

\* where the reader stops by the statement as written: at the first CR, or
\* at the first silence that follows a received byte
StopAsWritten(q) ==
  IF \E k \in 2..Len(q) : q[k] = "GAP" /\ k < FirstOf(q, {"CR"})
                          /\ \E j \in 1..(k - 1) : q[j] # "GAP"
  THEN CHOOSE k \in 2..Len(q) :
         /\ q[k] = "GAP" /\ \E j \in 1..(k - 1) : q[j] # "GAP"
         /\ \A i \in 2..(k - 1) : ~(q[i] = "GAP" /\ \E j \in 1..(i - 1) : q[j] # "GAP")
  ELSE FirstOf(q, {"CR"})

\* where the reader stops: at the first CR, or at the first silence that
\* follows a collected payload byte
StopAfterPayload(q) ==
  IF \E k \in 2..Len(q) : q[k] = "GAP" /\ k < FirstOf(q, {"CR"})
                          /\ \E j \in 1..(k - 1) : q[j] \notin {"GAP", "LF"}
  THEN CHOOSE k \in 2..Len(q) :
         /\ q[k] = "GAP" /\ \E j \in 1..(k - 1) : q[j] \notin {"GAP", "LF"}
         /\ \A i \in 2..(k - 1) : ~(q[i] = "GAP" /\ \E j \in 1..(i - 1) : q[j] \notin {"GAP", "LF"})
  ELSE FirstOf(q, {"CR"})

\* the payload before position stop, at most what the buffer holds
Payload(q, stop, max) ==
  LET all == Without(SubSeq(q, 1, stop - 1), {"GAP", "LF"})
  IN IF Len(all) < max THEN all ELSE SubSeq(all, 1, max - 1)

ReadLineAs(stop) ==
  /\ last.ret.buf = Payload(last.received, stop, last.max)
  /\ last.ret.rest = SubSeq(last.received, stop + 1, Len(last.received))
  /\ last.ret.ok = (Len(last.ret.buf) > 0)

\* the statement as written: the silence counts after any received byte
C35_ValveLineAsWritten == ValveRead => ReadLineAs(StopAsWritten(last.received))

\* C35 as it holds: the reader returns the bytes received before the first
\* CR, in order, newline bytes dropped and the CR excluded, at most as many
\* as the buffer holds with its terminator; it stops at the first CR, or at
\* the first silence of the gap interval after a payload byte was collected
\* (a silence after newline bytes alone does not stop it), or at the total
\* timeout; it reports success exactly when a payload byte was collected
C35_ValveLine == ValveRead => ReadLineAs(StopAfterPayload(last.received))

C35_Witness ==
  /\ ValveRead
  /\ last.received = <<"LF", "B", "C", "CR">>
  /\ last.ret.ok
  /\ last.ret.buf = <<"B", "C">>

C35_WitnessGap ==
  /\ ValveRead
  /\ last.received = <<"B", "GAP", "C", "CR">>
  /\ last.ret.buf = <<"B">>

(***************************************************************************)
(* C36: every dispatched command terminates and returns a result for every *)
(* possible bus behaviour (silence, a partial reply without terminator, a  *)
(* continuous stream of bytes that never contains a terminator or control  *)
(* byte), because each response read ends by its total timeout at the      *)
(* latest: a reader that has been entered returns, and the clock never     *)
(* passes the total timeout while it reads.                                *)
(***************************************************************************)
Reading == pc = "reading"

ReadReturned == pc = "returned" /\ last.ret # "none"

C36_EveryReadEnds ==
  /\ Reading ~> ReadReturned
  /\ [](pc \in {"reading", "returned"} => last.now <= TotalOf(last.op))

\* a byte in every tick up to the deadline, none of them a terminator
C36_Witness ==
  /\ ReadReturned
  /\ last.op = "readLine"
  /\ last.now = ValveTotal
  /\ last.n = ValveTotal
  /\ last.tLast = last.now
  /\ last.got

\* silence up to the deadline
C36_WitnessSilence ==
  /\ ReadReturned
  /\ last.op = "readMasterflexResponse"
  /\ last.now = PumpTotal
  /\ last.n = 0

(***************************************************************************)
(* C37: after registration, in every reachable state each relay's output   *)
(* pin level and indicator pin level both equal its recorded on/off state, *)
(* and a relay command (ON, OFF, TOGGLE or an unknown one) never           *)
(* reconfigures, transmits on or reads from the shared bus; an unknown     *)
(* relay command returns Error echoing the token and leaves state and pins *)
(* unchanged.                                                              *)
(***************************************************************************)
RelayCommand == DeviceCommand(DEVICE_RELAY)

UnknownRelayCommand ==
  RelayCommand /\ \A w \in {wON, wOFF, wTOGGLE} : ~strcasecmp0(CommandField, w)

PinsFollowState ==
  \A i \in RelayIndexes :
    devices[i].pinHigh = devices[i].state /\ devices[i].ledHigh = devices[i].state

C37_RelayPinsAndBus ==
  /\ PinsFollowState
  /\ RelayCommand => (last.log = <<>> /\ busProfile = last.profileBefore)
  /\ UnknownRelayCommand =>
       /\ last.res = CMD_ERROR
       /\ ResponseTag = "ERROR: "
       /\ ResponseArgs = <<CommandField>>
       /\ devices = last.before

C37_Witness ==
  /\ UnknownRelayCommand
  /\ last.before[Named].state
  /\ last.before[Named].pinHigh
  /\ last.profileBefore = P_MFLEX

C37_WitnessOn ==
  /\ RelayCommand
  /\ devices[Named].state /\ ~last.before[Named].state
  /\ devices[Named].pinHigh /\ devices[Named].ledHigh

(***************************************************************************)
(* C38: a command line followed by any run of consecutive CR and LF        *)
(* characters is dispatched exactly once: whatever head of a line a line   *)
(* buffer holds, feeding it a run of terminators dispatches that line once *)
(* and leaves the buffer empty, a run fed to an empty buffer dispatches    *)
(* nothing, and the line handed to the dispatcher is never empty and holds *)
(* no terminator, on the console and on the TCP client.                    *)
(***************************************************************************)
Terminators == { "\r", "\n" }

\* the longest run of terminators fed to a line buffer
MaxRun == 3

TerminatorRuns == SeqsUpTo(Terminators, MaxRun) \ { <<>> }

OnceOnly(buffer) ==
  \A run \in TerminatorRuns :
    Feed(buffer, run, <<>>) = [lines |-> (IF buffer = <<>> THEN <<>> ELSE <<buffer>>),
                                buffer |-> <<>>]

C38_DispatchedOnce ==
  /\ OnceOnly(serialBuffer) /\ OnceOnly(clientCmd)
  /\ LineReceived => /\ commandStr # <<>>
                     /\ \A k \in DOMAIN commandStr : commandStr[k] \notin Terminators
  /\ ~LineReceived => commandStr = <<>>

C38_Witness == pc = "client" /\ clientCmd # <<>>

C38_WitnessConsole == pc = "loop" /\ serialBuffer # <<>> /\ variant = "serial"

(***************************************************************************)
(* C39: the commands that need a parameter, valve GOTO and pump SPEED and  *)
(* REV, are executed only when PARAM1 is present in the line: dispatched   *)
(* without PARAM1 they return Error and no frame is written to the bus.    *)
(***************************************************************************)
NeedsParameter ==
  \/ ValveCommand /\ strcasecmp0(CommandField, wGOTO)
  \/ PumpCommand /\ (strcasecmp0(CommandField, wSPEED) \/ strcasecmp0(CommandField, wREV))

WithoutParameter == NeedsParameter /\ Len(LineFields) = 2

C39_ParameterRequired ==
  WithoutParameter => (last.res = CMD_ERROR /\ At("write") = {})

(***************************************************************************)
(* C40: for input lines of any length the outputs of the parser stay       *)
(* inside their buffers and are terminated strings: after parseCommand     *)
(* each of the four arrays holds a NUL, before it at most 15 characters    *)
(* (device id, command) or 31 (parameters), and these are the head of the  *)
(* token, also when the token is as long as the limit or longer.           *)
(***************************************************************************)
Parsed == pc = "parsed"

\* the array holds a terminated string
Terminated(array) == \E i \in DOMAIN array : array[i] = "NUL"

\* the string the array holds: the cells before its first NUL
StringOf(array) ==
  SubSeq(array, 1, (CHOOSE i \in DOMAIN array : array[i] = "NUL" /\ \A j \in 1..(i - 1) : array[j] # "NUL") - 1)

\* the array of the field holds the string that parseCommand yields, within
\* the limit
HoldsToken(f, limit) ==
  /\ Len(last[f]) = ParserArrays[f]
  /\ Terminated(last[f])
  /\ Len(StringOf(last[f])) <= limit
  /\ StringOf(last[f]) = parseCommand(variant, last.input, NoMem)[f]

\* a token of the line is as long as the copy limit or longer
LongToken(k, limit) ==
  /\ Parsed
  /\ Len(strtokAll(last.input, <<>>)) >= k
  /\ Len(strtokAll(last.input, <<>>)[k]) >= limit

C40_TerminatedOutputs ==
  Parsed => /\ HoldsToken("deviceId", DEVID_COPY) /\ HoldsToken("command", DEVID_COPY)
            /\ HoldsToken("param1", PARAM_COPY) /\ HoldsToken("param2", PARAM_COPY)

\* what holds: no cell beyond the copy limit is written, and a token shorter
\* than the limit is held whole and terminated
C40_ShortTokens ==
  Parsed => \A f \in DOMAIN ParserArrays :
              /\ Len(last[f]) = ParserArrays[f]
              /\ ~LongToken(CHOOSE k \in 1..4 : <<"deviceId", "command", "param1", "param2">>[k] = f,
                            ParserArrays[f] - 1) => HoldsToken(f, ParserArrays[f] - 1)

====
